---- MODULE Spec2Model ----
(***************************************************************************)
(* Credits ledger, spin orchestration and payment-webhook crediting of the *)
(* slot-machine-payments application.                                      *)
(*                                                                         *)
(* The storage layer (lib/db.ts) has two backends selected by              *)
(* configuration.  With the in-memory backend an exported function has no  *)
(* await inside: it runs to completion when it is called.  With the        *)
(* DynamoDB backend every client.send(...) is one atomic storage operation *)
(* and requests interleave between them.  A route handler is suspended at  *)
(* every await, so an action of this model is: the code that runs when an  *)
(* awaited call has returned, up to and including the synchronous part of  *)
(* the next awaited call.  Code after the last await of a handler only     *)
(* builds the response; it is part of the action that ends the last call.  *)
(***************************************************************************)
EXTENDS Integers, Sequences, FiniteSets, TLC

(***************************************************************************)
(* Program constants                                                       *)
(***************************************************************************)
INITIAL_BALANCE == 1000

\* a faulty variant of the allow-list: 7 is a bet
BetOptionsWithSeven == {1, 5, 7, 10, 25, 50, 100}

BET_OPTIONS == {1, 5, 10, 25, 50, 100}

SYMBOLS == <<"CHERRY", "LEMON", "ORANGE", "GRAPE", "STAR", "DIAMOND", "SEVEN">>

\* a faulty variant of the table: three cherries pay 30
PayoutTableGenerous ==
    [k \in {"SEVENSEVENSEVEN", "DIAMONDDIAMONDDIAMOND", "STARSTARSTAR",
            "GRAPEGRAPEGRAPE", "ORANGEORANGEORANGE", "LEMONLEMONLEMON",
            "CHERRYCHERRYCHERRY"} |->
        CASE k = "SEVENSEVENSEVEN" -> 50
          [] k = "DIAMONDDIAMONDDIAMOND" -> 25
          [] k = "STARSTARSTAR" -> 15
          [] k = "GRAPEGRAPEGRAPE" -> 10
          [] k = "ORANGEORANGEORANGE" -> 8
          [] k = "LEMONLEMONLEMON" -> 5
          [] OTHER -> 30]

PAYOUT_TABLE ==
    [k \in {"SEVENSEVENSEVEN", "DIAMONDDIAMONDDIAMOND", "STARSTARSTAR",
            "GRAPEGRAPEGRAPE", "ORANGEORANGEORANGE", "LEMONLEMONLEMON",
            "CHERRYCHERRYCHERRY"} |->
        CASE k = "SEVENSEVENSEVEN" -> 50
          [] k = "DIAMONDDIAMONDDIAMOND" -> 25
          [] k = "STARSTARSTAR" -> 15
          [] k = "GRAPEGRAPEGRAPE" -> 10
          [] k = "ORANGEORANGEORANGE" -> 8
          [] k = "LEMONLEMONLEMON" -> 5
          [] OTHER -> 3]

\* SYMBOL_WEIGHTS, in the order of its declaration
SYMBOL_WEIGHTS ==
    <<[symbol |-> "CHERRY", weight |-> 30], [symbol |-> "LEMON", weight |-> 25],
      [symbol |-> "ORANGE", weight |-> 20], [symbol |-> "GRAPE", weight |-> 15],
      [symbol |-> "STAR", weight |-> 7], [symbol |-> "DIAMOND", weight |-> 2],
      [symbol |-> "SEVEN", weight |-> 1]>>

PARTIAL_PAYOUT ==
    [k \in {"SEVENSEVEN", "DIAMONDDIAMOND", "STARSTAR"} |->
        CASE k = "SEVENSEVEN" -> 5
          [] k = "DIAMONDDIAMOND" -> 3
          [] OTHER -> 2]

\* priceZAR -> credits of CREDIT_PACKAGES
CREDIT_PACKAGES ==
    [a \in {2000, 3500, 7500, 12500} |->
        CASE a = 2000 -> 500
          [] a = 3500 -> 1000
          [] a = 7500 -> 2500
          [] OTHER -> 5000]

(***************************************************************************)
(* Bounds of the model                                                     *)
(***************************************************************************)
\* request slots of the whole-system specification (one request each)
NProcs == 2
\* storage calls that may fail with a transient error
MaxFaults == 2
\* request slots of the racing-debits specification
NRace == 3
\* request slots of the payment specification
NHook == 3
\* request slots of the redelivery specification
NRetry == 2
\* request slots of the ledger specification
NLedger == 2
\* request slots of the spin specification
NSpin == 3
\* request slots of the intake specification
NIntake == 2
\* request slots of the purchase specification
NPurchase == 2
\* executeSpin calls of the engine specification
NEngine == 1
\* getRandomSymbol calls of the draw specification
NDraw == 2
\* generateSpinId calls of the spin-id specification
NSpinId == 3
\* the milliseconds of the clock
MaxTime == 2
\* requests of the query specification
NQuery == 3
\* calls of the mutator specification
NMutators == 3
\* calls of a sequence of the backend specification
NBackends == 3
\* notifications of the key specification
NKey == 2
\* calls of the return-to-player specification
NRtp == 2

UserIds == {"u1"}

\* amounts passed to direct debitBalance / creditBalance calls
LedgerAmounts == {600, 1000}

\* bet amounts sent to the spin route (7 is not an allowed bet)
SpinBets == {10, 7}

\* checkout ids the payment provider hands out
CheckoutIds == {"chk_1"}

\* amounts sent to the create-payment route
PayAmounts == {2000}

\* amounts of the racing debits (1000 \div a is 3, 2, 2, 1 and 0)
RaceAmounts == {300, 400, 500, 1000, 1200}

\* amounts of the direct ledger calls of the ledger specification
DirectAmounts == {0, 600, 1200}

NoKey == ""

\* idempotencyKey arguments of the direct creditBalance calls
CreditKeys == {NoKey, "k1"}

\* a normalized notification: "" is an absent string, << >> an absent amount
NoEvent ==
    [eventType |-> "", paymentId |-> "", checkoutId |-> "", amount |-> << >>,
     userId |-> ""]

Event(t, chk, pay, amt, u) ==
    [eventType |-> t, paymentId |-> pay, checkoutId |-> chk, amount |-> amt,
     userId |-> u]

\* the notifications delivered to the webhook route
HookEvents ==
    {Event("payment.succeeded", "chk_1", "pay_1", <<2000>>, "u1"),
     Event("payment.succeeded", "chk_1", "pay_1", <<3500>>, "u1"),
     Event("payment.failed", "chk_1", "pay_1", << >>, ""),
     Event("checkout.completed", "chk_1", "", << >>, "")}

\* the notifications of the intake specification: the ones above, and
\* an unknown event type, no identifiers, an amount of 0, a payload that
\* does not normalize (no event type), and an amount of 3 cents
IntakeEvents ==
    HookEvents \cup
    {Event("refund.created", "chk_1", "pay_1", <<2000>>, "u1"),
     Event("payment.succeeded", "", "", <<2000>>, "u1"),
     Event("payment.succeeded", "chk_1", "pay_1", <<0>>, "u1"),
     NoEvent,
     Event("payment.succeeded", "chk_1", "pay_1", <<3>>, "u1")}

\* the notifications of the purchase specification: the payment of 2000
\* with the payer or another user in the metadata, a completion without
\* amount or user, a failure, and notifications of a checkout that has no
\* payment record: without amount, without user, and with both
PurchaseEvents ==
    {Event("payment.succeeded", "chk_1", "pay_1", <<2000>>, "u1"),
     Event("payment.succeeded", "chk_1", "pay_1", <<2000>>, "u2"),
     Event("checkout.completed", "chk_1", "", << >>, ""),
     Event("payment.failed", "chk_1", "pay_1", << >>, ""),
     Event("payment.succeeded", "chk_7", "pay_7", << >>, "u2"),
     Event("payment.succeeded", "chk_7", "pay_7", <<2000>>, ""),
     Event("payment.succeeded", "chk_7", "pay_7", <<2000>>, "u2")}

VARIABLES
    dynamo,         \* TRUE: DynamoDB backend, FALSE: in-memory backend
    users,          \* user id -> balance, for the accounts that exist
    transactions,   \* the transaction log, in insertion order
    payments,       \* the payment records, in insertion order
    processedIdempotencyKeys,   \* in-memory backend: keys already used
    idempotency,    \* DynamoDB backend: key -> idempotency record
    pc,             \* slot -> position of its request
    loc,            \* slot -> local variables of its request
    resp,           \* slot -> response (or thrown error) of its request
    faults          \* storage calls that have failed so far

vars == <<dynamo, users, transactions, payments, processedIdempotencyKeys,
          idempotency, pc, loc, resp, faults>>

\* the request slots of the behaviour
Procs == DOMAIN pc

(***************************************************************************)
(* Helpers                                                                 *)
(***************************************************************************)
NoLoc ==
    [kind |-> "", userId |-> "", amount |-> 0, type |-> "", key |-> NoKey,
     gRet |-> "", dRet |-> "", uBal |-> 0, oldBal |-> 0, tx |-> 0,
     debitTx |-> 0, bet |-> 0, spun |-> FALSE, mult |-> 0,
     roll |-> 0, fallback |-> FALSE, reels |-> << >>, isJackpot |-> FALSE,
     ts |-> 0, spinId |-> "",
     ev |-> NoEvent, ids |-> << >>, rec |-> 0, cents |-> 0, dup |-> FALSE,
     status |-> ""]

NoResp == [code |-> 0, tag |-> "", body |-> ""]

RECURSIVE SumAmounts(_, _)
SumAmounts(txs, u) ==
    IF txs = << >> THEN 0
    ELSE (IF Head(txs).userId = u THEN Head(txs).amount ELSE 0)
         + SumAmounts(Tail(txs), u)

TxWithKey(key) == {i \in 1..Len(transactions) : transactions[i].idempotencyKey = key}

\* a faulty variant of the literal: balanceAfter repeats balanceBefore
NewTxStaleAfter(u, type, amount, before, after, key) ==
    [id |-> Len(transactions) + 1, userId |-> u, type |-> type,
     amount |-> amount, balanceBefore |-> before, balanceAfter |-> before,
     status |-> "COMPLETED", idempotencyKey |-> key]

\* a new Transaction object (db.ts builds the same literal in all four places)
NewTx(u, type, amount, before, after, key) ==
    [id |-> Len(transactions) + 1, userId |-> u, type |-> type,
     amount |-> amount, balanceBefore |-> before, balanceAfter |-> after,
     status |-> "COMPLETED", idempotencyKey |-> key]

\* a Scan with Limit: 1 and a FilterExpression evaluates one item of the
\* table (which one is up to the table's hash order) and returns it only
\* if it passes the filter.  The results are sequences of length <= 1.
ScanLimit1(items, matching) ==
    {<<i>> : i \in items \cap matching}
        \cup (IF items \subseteq matching /\ items # {} THEN {} ELSE {<< >>})

\* the request of slot p, with locals l, ends: a response is sent or an
\* error is thrown (of the locals only inputs and outcome are kept; the
\* response of a spin carries the balance and the two transaction ids)
Finish(p, l, code, tag, body) ==
    /\ pc' = [pc EXCEPT ![p] = "done"]
    /\ resp' = [resp EXCEPT ![p] = [code |-> code, tag |-> tag, body |-> body]]
    /\ loc' = [loc EXCEPT ![p] = [NoLoc EXCEPT !.kind = l.kind,
                    !.userId = l.userId, !.amount = l.amount,
                    !.type = l.type, !.key = l.key, !.bet = l.bet,
                    !.spun = l.spun, !.mult = l.mult, !.ev = l.ev,
                    !.uBal = IF body = "spin" THEN l.uBal ELSE 0,
                    !.debitTx = IF body = "spin" THEN l.debitTx ELSE 0,
                    !.tx = IF body = "spin" THEN l.tx ELSE 0]]

\* slot p is suspended at label with locals l
Goto(p, label, l) ==
    /\ pc' = [pc EXCEPT ![p] = label]
    /\ loc' = [loc EXCEPT ![p] = l]
    /\ UNCHANGED resp

\* an exception leaves a db.ts function.  The spin and create-payment
\* routes and the credit step of the webhook route catch it and answer 500
\* with its message (the webhook route also logs ERROR), the balance route
\* answers 500 "Internal server error"; a direct caller gets the exception.
Throw(p, l, msg) ==
    Finish(p, l, 500, IF l.kind = "hook" THEN "ERROR" ELSE "",
           IF l.kind = "query" THEN "Internal server error" ELSE msg)

\* an awaited db.ts call returns to label.  The labels below are reached
\* after the last await of their handler, where only the response is left.
Return(p, label, l) ==
    CASE label = "ret" -> Finish(p, l, 200, "", "ok")
      [] label = "spin_resp" -> Finish(p, l, 200, "", "spin")
      [] label = "hook_done" -> Finish(p, l, 200, "PROCESSED", "credited")
      [] label = "fail_done" -> Finish(p, l, 200, "PROCESSED", "processed")
      [] label = "pay_done" -> Finish(p, l, 200, "", "checkout")
      [] OTHER -> Goto(p, label, l)

EmptyStores ==
    /\ users = << >>
    /\ transactions = << >>
    /\ payments = << >>
    /\ processedIdempotencyKeys = {}
    /\ idempotency = << >>
    /\ faults = 0

Idle(n) ==
    /\ pc = [p \in 1..n |-> "idle"]
    /\ loc = [p \in 1..n |-> NoLoc]
    /\ resp = [p \in 1..n |-> NoResp]

Init ==
    /\ dynamo \in BOOLEAN
    /\ EmptyStores
    /\ Idle(NProcs)

\* slots are taken in order (they are interchangeable)
CanStart(p) ==
    /\ pc[p] = "idle"
    /\ \A q \in Procs : q < p => pc[q] # "idle"

(***************************************************************************)
(* getOrCreateUser                                                         *)
(***************************************************************************)
NewUser(u) == (u :> INITIAL_BALANCE) @@ users

\* the call getOrCreateUser(l.userId), returning to l.gRet
EnterGetOrCreateUser(p, l) ==
    IF ~dynamo
    THEN /\ users' = (IF l.userId \in DOMAIN users THEN users ELSE NewUser(l.userId))
         /\ Return(p, l.gRet, [l EXCEPT !.uBal = users'[l.userId]])
    ELSE /\ UNCHANGED users
         /\ Goto(p, "guc", l)

\* the first GetCommand
GetOrCreateUser(p) ==
    /\ pc[p] = "guc"
    /\ dynamo
    /\ LET u == loc[p].userId IN
       IF u \in DOMAIN users
       THEN Return(p, loc[p].gRet, [loc[p] EXCEPT !.uBal = users[u]])
       ELSE Goto(p, "guc_put", loc[p])
    /\ UNCHANGED <<dynamo, users, transactions, payments,
                   processedIdempotencyKeys, idempotency, faults>>

\* a faulty variant of the put: the ConditionExpression is left out
GucPutUnconditional(p) ==
    /\ pc[p] = "guc_put"
    /\ dynamo
    /\ users' = NewUser(loc[p].userId)
    /\ Return(p, loc[p].gRet, [loc[p] EXCEPT !.uBal = INITIAL_BALANCE])
    /\ UNCHANGED <<dynamo, transactions, payments, processedIdempotencyKeys,
                   idempotency, faults>>

\* PutCommand with attribute_not_exists(id)
GucPut(p) ==
    /\ pc[p] = "guc_put"
    /\ dynamo
    /\ LET u == loc[p].userId IN
       IF u \notin DOMAIN users
       THEN /\ users' = NewUser(u)
            /\ Return(p, loc[p].gRet, [loc[p] EXCEPT !.uBal = INITIAL_BALANCE])
       ELSE /\ UNCHANGED users
            /\ Goto(p, "guc_retry", loc[p])
    /\ UNCHANGED <<dynamo, transactions, payments, processedIdempotencyKeys,
                   idempotency, faults>>

\* the GetCommand after a failed conditional put
GucRetry(p) ==
    /\ pc[p] = "guc_retry"
    /\ dynamo
    /\ LET u == loc[p].userId IN
       IF u \in DOMAIN users
       THEN Return(p, loc[p].gRet, [loc[p] EXCEPT !.uBal = users[u]])
       ELSE Throw(p, loc[p], "Failed to create user")
    /\ UNCHANGED <<dynamo, users, transactions, payments,
                   processedIdempotencyKeys, idempotency, faults>>

(***************************************************************************)
(* debitBalance                                                            *)
(***************************************************************************)
\* a faulty variant of the in-memory check: any positive balance passes
HasFundsPositive(balance, amount) == balance > 0

\* a faulty variant of the update: the ConditionExpression is left out
BalanceConditionDropped(balance, amount) == TRUE

\* in-memory: the call throws unless user.balance >= amount
HasFunds(balance, amount) == ~(balance < amount)

\* DynamoDB: ConditionExpression "balance >= :amount"
BalanceCondition(balance, amount) == balance >= amount

\* a faulty variant of the in-memory debit: the transaction is not pushed
DebitInMemoryUnlogged(p, l) ==
    LET u == l.userId
    IN /\ users' = [users EXCEPT ![u] = users[u] - l.amount]
       /\ UNCHANGED transactions
       /\ Return(p, l.dRet, [l EXCEPT !.tx = Len(transactions) + 1])

\* in-memory: the balance update and transactions.push of debitBalance
DebitInMemory(p, l) ==
    LET u == l.userId
        before == users[u]
        tx == NewTx(u, l.type, -l.amount, before, before - l.amount, NoKey)
    IN /\ users' = [users EXCEPT ![u] = before - l.amount]
       /\ transactions' = Append(transactions, tx)
       /\ Return(p, l.dRet, [l EXCEPT !.tx = tx.id])

\* the call debitBalance(l.userId, l.amount, l.type), returning to l.dRet
EnterDebit(p, l) ==
    IF l.amount <= 0
    THEN /\ Throw(p, l, "Debit amount must be positive")
         /\ UNCHANGED <<users, transactions>>
    ELSE IF dynamo
    THEN /\ EnterGetOrCreateUser(p, [l EXCEPT !.gRet = "deb_update"])
         /\ UNCHANGED transactions
    ELSE IF l.userId \notin DOMAIN users
    THEN /\ Throw(p, l, "User not found")
         /\ UNCHANGED <<users, transactions>>
    ELSE IF ~HasFunds(users[l.userId], l.amount)
    THEN /\ Throw(p, l, "Insufficient balance")
         /\ UNCHANGED <<users, transactions>>
    ELSE DebitInMemory(p, l)

\* UpdateCommand "SET balance = balance - :amount" under the condition
DebUpdate(p) ==
    /\ pc[p] = "deb_update"
    /\ dynamo
    /\ LET u == loc[p].userId
           amount == loc[p].amount
       IN IF BalanceCondition(users[u], amount)
          THEN /\ users' = [users EXCEPT ![u] = users[u] - amount]
               /\ Goto(p, "deb_put", [loc[p] EXCEPT !.oldBal = users[u]])
          ELSE \* ConditionalCheckFailedException: the catch block
               EnterGetOrCreateUser(p, [loc[p] EXCEPT !.gRet = "deb_catch"])
    /\ UNCHANGED <<dynamo, transactions, payments, processedIdempotencyKeys,
                   idempotency, faults>>

\* saveTransactionDynamo(tx) of debitBalance
DebPut(p) ==
    /\ pc[p] = "deb_put"
    /\ dynamo
    /\ LET l == loc[p]
           tx == NewTx(l.userId, l.type, -l.amount, l.oldBal,
                       l.oldBal - l.amount, NoKey)
       IN /\ transactions' = Append(transactions, tx)
          /\ Return(p, l.dRet, [l EXCEPT !.tx = tx.id])
    /\ UNCHANGED <<dynamo, users, payments, processedIdempotencyKeys,
                   idempotency, faults>>

\* the catch block after getOrCreateUser returned
DebCatch(p) ==
    /\ pc[p] = "deb_catch"
    /\ IF loc[p].uBal < loc[p].amount
       THEN Throw(p, loc[p], "Insufficient balance")
       ELSE Throw(p, loc[p], "Debit failed")
    /\ UNCHANGED <<dynamo, users, transactions, payments,
                   processedIdempotencyKeys, idempotency, faults>>

(***************************************************************************)
(* creditBalance                                                           *)
(***************************************************************************)
\* in-memory: the balance update and transactions.push of creditBalance
CreditInMemory(p, l) ==
    LET u == l.userId
        before == users[u]
        tx == NewTx(u, l.type, l.amount, before, before + l.amount, l.key)
    IN /\ users' = [users EXCEPT ![u] = before + l.amount]
       /\ transactions' = Append(transactions, tx)
       /\ Return(p, l.dRet, [l EXCEPT !.tx = tx.id])

\* transactions.find((t) => t.metadata.idempotencyKey === idempotencyKey)
FirstTxWithKey(key) ==
    CHOOSE i \in TxWithKey(key) : \A j \in TxWithKey(key) : i <= j

\* the call creditBalance(l.userId, l.amount, l.type, metadata, l.key),
\* returning to l.dRet
EnterCredit(p, l) ==
    IF l.amount <= 0
    THEN /\ Throw(p, l, "Credit amount must be positive")
         /\ UNCHANGED <<users, transactions, processedIdempotencyKeys>>
    ELSE IF dynamo
    THEN /\ EnterGetOrCreateUser(p, [l EXCEPT !.gRet =
                IF l.key = NoKey THEN "cred_update" ELSE "cred_reserve"])
         /\ UNCHANGED <<transactions, processedIdempotencyKeys>>
    ELSE IF l.key # NoKey /\ l.key \in processedIdempotencyKeys
    THEN /\ UNCHANGED <<users, transactions, processedIdempotencyKeys>>
         /\ IF TxWithKey(l.key) # {}
            THEN Return(p, l.dRet, [l EXCEPT !.tx = FirstTxWithKey(l.key)])
            ELSE Throw(p, l, "Idempotency key found but transaction missing")
    ELSE /\ processedIdempotencyKeys' =
              (IF l.key # NoKey THEN processedIdempotencyKeys \cup {l.key}
               ELSE processedIdempotencyKeys)
         /\ IF l.userId \notin DOMAIN users
            THEN /\ Throw(p, l, "User not found")
                 /\ UNCHANGED <<users, transactions>>
            ELSE CreditInMemory(p, l)

\* a faulty variant of the reservation: the put has no condition
CredReserveUnconditional(p) ==
    /\ pc[p] = "cred_reserve"
    /\ dynamo
    /\ idempotency' =
          (loc[p].key :> [status |-> "RESERVED", transactionId |-> 0]) @@ idempotency
    /\ Goto(p, "cred_update", loc[p])
    /\ UNCHANGED <<dynamo, users, transactions, payments,
                   processedIdempotencyKeys, faults>>

\* PutCommand of the RESERVED record with attribute_not_exists(id)
CredReserve(p) ==
    /\ pc[p] = "cred_reserve"
    /\ dynamo
    /\ LET key == loc[p].key IN
       IF key \notin DOMAIN idempotency
       THEN /\ idempotency' =
                 (key :> [status |-> "RESERVED", transactionId |-> 0]) @@ idempotency
            /\ Goto(p, "cred_update", loc[p])
       ELSE /\ UNCHANGED idempotency
            /\ Goto(p, "cred_existing", loc[p])
    /\ UNCHANGED <<dynamo, users, transactions, payments,
                   processedIdempotencyKeys, faults>>

\* getIdempotencyRecord(idempotencyKey) after the conditional put failed
CredExisting(p) ==
    /\ pc[p] = "cred_existing"
    /\ dynamo
    /\ LET existing == idempotency[loc[p].key] IN
       IF existing.status = "COMPLETED" /\ existing.transactionId # 0
       THEN Goto(p, "cred_find_id", [loc[p] EXCEPT !.tx = existing.transactionId])
       ELSE Goto(p, "cred_find_key", loc[p])
    /\ UNCHANGED <<dynamo, users, transactions, payments,
                   processedIdempotencyKeys, idempotency, faults>>

\* findTransactionByIdDynamo(existing.transactionId)
CredFindById(p) ==
    /\ pc[p] = "cred_find_id"
    /\ dynamo
    /\ \E r \in ScanLimit1(1..Len(transactions),
                           {i \in 1..Len(transactions) : transactions[i].id = loc[p].tx}) :
          IF r # << >>
          THEN Return(p, loc[p].dRet, [loc[p] EXCEPT !.tx = r[1]])
          ELSE Goto(p, "cred_find_key", loc[p])
    /\ UNCHANGED <<dynamo, users, transactions, payments,
                   processedIdempotencyKeys, idempotency, faults>>

\* findTransactionByIdempotencyDynamo(idempotencyKey)
CredFindByKey(p) ==
    /\ pc[p] = "cred_find_key"
    /\ dynamo
    /\ \E r \in ScanLimit1(1..Len(transactions), TxWithKey(loc[p].key)) :
          IF r # << >>
          THEN Return(p, loc[p].dRet, [loc[p] EXCEPT !.tx = r[1]])
          ELSE Throw(p, loc[p], "Payment already processed")
    /\ UNCHANGED <<dynamo, users, transactions, payments,
                   processedIdempotencyKeys, idempotency, faults>>

\* UpdateCommand "SET balance = balance + :amount"
CredUpdate(p) ==
    /\ pc[p] = "cred_update"
    /\ dynamo
    /\ LET u == loc[p].userId IN
       /\ users' = [users EXCEPT ![u] = users[u] + loc[p].amount]
       /\ Goto(p, "cred_put", [loc[p] EXCEPT !.oldBal = users[u]])
    /\ UNCHANGED <<dynamo, transactions, payments, processedIdempotencyKeys,
                   idempotency, faults>>

\* saveTransactionDynamo(tx) of creditBalance
CredPut(p) ==
    /\ pc[p] = "cred_put"
    /\ dynamo
    /\ LET l == loc[p]
           tx == NewTx(l.userId, l.type, l.amount, l.oldBal,
                       l.oldBal + l.amount, l.key)
       IN /\ transactions' = Append(transactions, tx)
          /\ IF l.key = NoKey
             THEN Return(p, l.dRet, [l EXCEPT !.tx = tx.id])
             ELSE Goto(p, "cred_complete", [l EXCEPT !.tx = tx.id])
    /\ UNCHANGED <<dynamo, users, payments, processedIdempotencyKeys,
                   idempotency, faults>>

\* UpdateCommand setting the idempotency record COMPLETED
CredComplete(p) ==
    /\ pc[p] = "cred_complete"
    /\ dynamo
    /\ idempotency' = (loc[p].key :> [status |-> "COMPLETED",
                                      transactionId |-> loc[p].tx]) @@ idempotency
    /\ Return(p, loc[p].dRet, loc[p])
    /\ UNCHANGED <<dynamo, users, transactions, payments,
                   processedIdempotencyKeys, faults>>

(***************************************************************************)
(* Payment records                                                         *)
(***************************************************************************)
PaymentsWithExt(ext) ==
    {i \in 1..Len(payments) : payments[i].externalPaymentId = ext}

\* in-memory getPaymentByExternalId: the first match in insertion order
\* (0: null)
FirstPaymentWithExt(ext) ==
    IF PaymentsWithExt(ext) = {} THEN 0
    ELSE CHOOSE i \in PaymentsWithExt(ext) : \A j \in PaymentsWithExt(ext) : i <= j

\* the call getPaymentByExternalId(Head(l.ids)), returning to "found"
EnterFind(p, l) ==
    IF ~dynamo
    THEN Goto(p, "found", [l EXCEPT !.rec = FirstPaymentWithExt(Head(l.ids))])
    ELSE Goto(p, "find", l)

\* the ScanCommand of getPaymentByExternalId
FindPayment(p) ==
    /\ pc[p] = "find"
    /\ dynamo
    /\ \E r \in ScanLimit1(1..Len(payments), PaymentsWithExt(Head(loc[p].ids))) :
          Goto(p, "found", [loc[p] EXCEPT !.rec = IF r = << >> THEN 0 ELSE r[1]])
    /\ UNCHANGED <<dynamo, users, transactions, payments,
                   processedIdempotencyKeys, idempotency, faults>>

SetStatus(rec, status) ==
    [payments EXCEPT ![rec] = [@ EXCEPT !.status = status, !.webhookReceived = TRUE]]

\* the call updatePaymentStatus(l.rec, l.status, true), returning to l.dRet
EnterUpdateStatus(p, l) ==
    IF ~dynamo
    THEN /\ payments' = SetStatus(l.rec, l.status)
         /\ Return(p, l.dRet, l)
    ELSE /\ UNCHANGED payments
         /\ Goto(p, "upd_status", l)

\* the UpdateCommand of updatePaymentStatus
UpdatePaymentStatus(p) ==
    /\ pc[p] = "upd_status"
    /\ dynamo
    /\ payments' = SetStatus(loc[p].rec, loc[p].status)
    /\ Return(p, loc[p].dRet, loc[p])
    /\ UNCHANGED <<dynamo, users, transactions, processedIdempotencyKeys,
                   idempotency, faults>>

\* isPaymentProcessed(key) on the current stores
IsProcessed(key) ==
    IF ~dynamo THEN key \in processedIdempotencyKeys
    ELSE key \in DOMAIN idempotency /\ idempotency[key].status = "COMPLETED"

\* the call isPaymentProcessed(l.key), returning to "hook_checked"
EnterIsProcessed(p, l) ==
    IF ~dynamo
    THEN Goto(p, "hook_checked", [l EXCEPT !.dup = IsProcessed(l.key)])
    ELSE Goto(p, "is_processed", l)

\* getIdempotencyRecord of isPaymentProcessed
IsPaymentProcessed(p) ==
    /\ pc[p] = "is_processed"
    /\ dynamo
    /\ Goto(p, "hook_checked", [loc[p] EXCEPT !.dup = IsProcessed(loc[p].key)])
    /\ UNCHANGED <<dynamo, users, transactions, payments,
                   processedIdempotencyKeys, idempotency, faults>>

(***************************************************************************)
(* Transient storage errors (DynamoDB backend)                             *)
(***************************************************************************)
\* positions at which a client.send(...) is outstanding
SendPcs ==
    {"guc", "guc_put", "guc_retry", "deb_update", "deb_put", "cred_reserve",
     "cred_existing", "cred_find_id", "cred_find_key", "cred_update",
     "cred_put", "cred_complete", "query_history", "find", "is_processed",
     "upd_status", "pay_put", "all_scan",
     "profile_update", "processed_get"}

\* the sends of the webhook route that are inside its try block
InHookTry(p) ==
    /\ loc[p].kind = "hook"
    /\ pc[p] \notin {"find", "is_processed"}
    /\ ~(pc[p] = "upd_status" /\ loc[p].status = "FAILED")

\* client.send rejects with an error other than ConditionalCheckFailed:
\* nothing is written, the error propagates to the route, which answers 500
StorageFault(p) ==
    /\ dynamo
    /\ pc[p] \in SendPcs
    /\ faults < MaxFaults
    /\ faults' = faults + 1
    /\ Finish(p, loc[p], 500, IF InHookTry(p) THEN "ERROR" ELSE "", "storage error")
    /\ UNCHANGED <<dynamo, users, transactions, payments,
                   processedIdempotencyKeys, idempotency>>

(***************************************************************************)
(* Direct calls of the ledger primitives                                   *)
(***************************************************************************)
DebitStart(p, u, amount) ==
    /\ CanStart(p)
    /\ EnterDebit(p, [NoLoc EXCEPT !.kind = "debit", !.userId = u,
                      !.amount = amount, !.type = "REFUND", !.dRet = "ret"])
    /\ UNCHANGED <<dynamo, payments, processedIdempotencyKeys, idempotency, faults>>

CreditStart(p, u, amount, key) ==
    /\ CanStart(p)
    /\ EnterCredit(p, [NoLoc EXCEPT !.kind = "credit", !.userId = u,
                       !.amount = amount, !.type = "REFUND", !.key = key,
                       !.dRet = "ret"])
    /\ UNCHANGED <<dynamo, payments, idempotency, faults>>

(***************************************************************************)
(* calculateTheoreticalRTP                                                 *)
(***************************************************************************)
\* the UTF-16 code units of the symbol literals of slot-engine.ts
UTF16 ==
    [symbol \in {SYMBOLS[i] : i \in 1..Len(SYMBOLS)} |->
        CASE symbol = "CHERRY" -> <<55356, 57170>>
          [] symbol = "LEMON" -> <<55356, 57163>>
          [] symbol = "ORANGE" -> <<55356, 57162>>
          [] symbol = "GRAPE" -> <<55356, 57159>>
          [] symbol = "STAR" -> <<11088>>
          [] symbol = "DIAMOND" -> <<55357, 56462>>
          [] OTHER -> <<55, 65039, 8419>>]

\* the keys of PAYOUT_TABLE that Object.entries yields: three times a symbol
ComboOf(symbol) == UTF16[symbol] \o UTF16[symbol] \o UTF16[symbol]

\* combo.slice(0, 2): the first two code units
FirstSymbol(combo) == SubSeq(combo, 1, 2)

\* SYMBOL_WEIGHTS[firstSymbol] || 0
WeightOfKey(key) ==
    LET hits == {i \in 1..Len(SYMBOL_WEIGHTS) : UTF16[SYMBOL_WEIGHTS[i].symbol] = key}
    IN IF hits = {} THEN 0 ELSE SYMBOL_WEIGHTS[CHOOSE i \in hits : TRUE].weight

\* the loop over the entries of PAYOUT_TABLE from the i-th symbol on.
\* expectedReturn is kept as its numerator over TOTAL_WEIGHT^3 (the code adds
\* the floating-point quotients)
RECURSIVE ExpectedReturnFrom(_)
ExpectedReturnFrom(i) ==
    IF i > Len(SYMBOLS) THEN 0
    ELSE LET symbol == SYMBOLS[i]
             multiplier == PAYOUT_TABLE[symbol \o symbol \o symbol]
             weight == WeightOfKey(FirstSymbol(ComboOf(symbol)))
         IN weight * weight * weight * multiplier + ExpectedReturnFrom(i + 1)

\* calculateTheoreticalRTP(), as the numerator of expectedReturn over
\* TOTAL_WEIGHT^3; the value returned is 100 times that fraction
calculateTheoreticalRTP == ExpectedReturnFrom(1)

CalculateTheoreticalRTP(p) ==
    /\ CanStart(p)
    /\ Finish(p, [NoLoc EXCEPT !.kind = "rtp", !.amount = calculateTheoreticalRTP],
              200, "", "rtp")
    /\ UNCHANGED <<dynamo, users, transactions, payments,
                   processedIdempotencyKeys, idempotency, faults>>

(***************************************************************************)
(* Direct calls of the other db.ts operations                              *)
(***************************************************************************)
\* the accounts of the mutator specification
MutatorUsers == {"u1", "u2"}

\* getOrCreateUser(u)
GetOrCreateUserCall(p, u) ==
    /\ CanStart(p)
    /\ EnterGetOrCreateUser(p, [NoLoc EXCEPT !.kind = "user", !.userId = u,
                                !.gRet = "ret"])
    /\ UNCHANGED <<dynamo, transactions, payments, processedIdempotencyKeys,
                   idempotency, faults>>

\* updateUserProfile(u, profile); in-memory: the profile fields of the stored
\* user are set, DynamoDB: getOrCreateUser, then an UpdateCommand
UpdateUserProfile(p, u) ==
    /\ CanStart(p)
    /\ LET l == [NoLoc EXCEPT !.kind = "profile", !.userId = u] IN
       IF ~dynamo
       THEN /\ IF u \notin DOMAIN users
               THEN Throw(p, l, "User not found")
               ELSE Finish(p, l, 200, "", "ok")
            /\ UNCHANGED users
       ELSE EnterGetOrCreateUser(p, [l EXCEPT !.gRet = "profile_update"])
    /\ UNCHANGED <<dynamo, transactions, payments, processedIdempotencyKeys,
                   idempotency, faults>>

\* a faulty variant of the update: the user item read before is written back
ProfileUpdateWholeItem(p) ==
    /\ pc[p] = "profile_update"
    /\ dynamo
    /\ users' = [users EXCEPT ![loc[p].userId] = loc[p].uBal]
    /\ Finish(p, loc[p], 200, "", "ok")
    /\ UNCHANGED <<dynamo, transactions, payments, processedIdempotencyKeys,
                   idempotency, faults>>

\* UpdateCommand "SET updatedAt, profileName, profileEmail"
ProfileUpdate(p) ==
    /\ pc[p] = "profile_update"
    /\ dynamo
    /\ Finish(p, loc[p], 200, "", "ok")
    /\ UNCHANGED <<dynamo, users, transactions, payments,
                   processedIdempotencyKeys, idempotency, faults>>

\* the statuses passed to updatePaymentStatus
PaymentStatuses == {"COMPLETED", "FAILED"}

\* updatePaymentStatus(id, status, true) for a payment record that exists
UpdatePaymentStatusCall(p, rec, status) ==
    /\ CanStart(p)
    /\ rec \in 1..Len(payments)
    /\ EnterUpdateStatus(p, [NoLoc EXCEPT !.kind = "status", !.rec = rec,
                             !.status = status, !.dRet = "ret"])
    /\ UNCHANGED <<dynamo, users, transactions, processedIdempotencyKeys,
                   idempotency, faults>>

\* isPaymentProcessed(key); in-memory: processedIdempotencyKeys.has(key)
IsPaymentProcessedCall(p, key) ==
    /\ CanStart(p)
    /\ LET l == [NoLoc EXCEPT !.kind = "processed", !.key = key] IN
       IF ~dynamo
       THEN Finish(p, [l EXCEPT !.dup = IsProcessed(key)], 200, "",
                   IF IsProcessed(key) THEN "true" ELSE "false")
       ELSE Goto(p, "processed_get", l)
    /\ UNCHANGED <<dynamo, users, transactions, payments,
                   processedIdempotencyKeys, idempotency, faults>>

\* getIdempotencyRecord returned to isPaymentProcessed
IsPaymentProcessedGet(p) ==
    /\ pc[p] = "processed_get"
    /\ dynamo
    /\ Finish(p, loc[p], 200, "", IF IsProcessed(loc[p].key) THEN "true" ELSE "false")
    /\ UNCHANGED <<dynamo, users, transactions, payments,
                   processedIdempotencyKeys, idempotency, faults>>

(***************************************************************************)
(* Query operations                                                        *)
(***************************************************************************)
\* the limits passed to the queries
QueryLimits == {1, 50}

\* createdAt of a transaction.  Transactions are created in different
\* milliseconds, so createdAt orders them as they were created, which is the
\* order of their ids
createdAt(t) == t.id

\* txs.sort((a, b) => b.createdAt - a.createdAt): the array itself, reordered
SortByCreatedAtDesc(txs) ==
    [i \in 1..Len(txs) |->
        txs[CHOOSE j \in 1..Len(txs) :
              Cardinality({k \in 1..Len(txs) : createdAt(txs[k]) > createdAt(txs[j])}) = i - 1]]

\* getAllTransactions(limit); in-memory: transactions.sort(...).slice(0, limit)
\* .map(copy), DynamoDB: a ScanCommand
GetAllTransactions(p, limit) ==
    /\ CanStart(p)
    /\ LET l == [NoLoc EXCEPT !.kind = "all", !.amount = limit] IN
       IF ~dynamo
       THEN /\ transactions' = SortByCreatedAtDesc(transactions)
            /\ Finish(p, l, 200, "", "ok")
       ELSE /\ UNCHANGED transactions
            /\ Goto(p, "all_scan", l)
    /\ UNCHANGED <<dynamo, users, payments, processedIdempotencyKeys,
                   idempotency, faults>>

\* the ScanCommand returned: map, sort and slice of the returned items
AllScan(p) ==
    /\ pc[p] = "all_scan"
    /\ dynamo
    /\ Finish(p, loc[p], 200, "", "ok")
    /\ UNCHANGED <<dynamo, users, transactions, payments,
                   processedIdempotencyKeys, idempotency, faults>>

\* getTransactionHistory(userId, limit); in-memory: filter, sort, slice and
\* map on the array filter returns, DynamoDB: a QueryCommand
GetTransactionHistory(p, u, limit) ==
    /\ CanStart(p)
    /\ LET l == [NoLoc EXCEPT !.kind = "history", !.userId = u, !.amount = limit] IN
       IF ~dynamo
       THEN Finish(p, l, 200, "", "ok")
       ELSE Goto(p, "query_history", l)
    /\ UNCHANGED <<dynamo, users, transactions, payments,
                   processedIdempotencyKeys, idempotency, faults>>

(***************************************************************************)
(* GET /api/balance                                                        *)
(***************************************************************************)
QueryStart(p, u) ==
    /\ CanStart(p)
    /\ EnterGetOrCreateUser(p, [NoLoc EXCEPT !.kind = "query", !.userId = u,
                                !.gRet = "query_history"])
    /\ UNCHANGED <<dynamo, transactions, payments, processedIdempotencyKeys,
                   idempotency, faults>>

\* getTransactionHistory(userId, 10) and the response
QueryHistory(p) ==
    /\ pc[p] = "query_history"
    /\ Finish(p, loc[p], 200, "", "ok")
    /\ UNCHANGED <<dynamo, users, transactions, payments,
                   processedIdempotencyKeys, idempotency, faults>>

(***************************************************************************)
(* Slot engine                                                             *)
(***************************************************************************)
Lookup(table, k) == IF k \in DOMAIN table THEN table[k] ELSE 0

\* a faulty variant of the payout: the partial table is consulted first
calculateMultiplierPartialFirst(reels) ==
    LET key == reels[1] \o reels[2] \o reels[3]
        partialKey == reels[1] \o reels[2]
    IN IF reels[1] = reels[2] /\ Lookup(PARTIAL_PAYOUT, partialKey) # 0
       THEN PARTIAL_PAYOUT[partialKey]
       ELSE IF Lookup(PAYOUT_TABLE, key) # 0 THEN PAYOUT_TABLE[key]
       ELSE 0

calculateMultiplier(reels) ==
    LET key == reels[1] \o reels[2] \o reels[3]
        partialKey == reels[1] \o reels[2]
    IN IF Lookup(PAYOUT_TABLE, key) # 0 THEN PAYOUT_TABLE[key]
       ELSE IF reels[1] = reels[2] /\ Lookup(PARTIAL_PAYOUT, partialKey) # 0
       THEN PARTIAL_PAYOUT[partialKey]
       ELSE 0

Reels == {<<SYMBOLS[a], SYMBOLS[b], SYMBOLS[c]>> : a, b, c \in 1..Len(SYMBOLS)}

\* Object.values(SYMBOL_WEIGHTS).reduce((a, b) => a + b, 0)
RECURSIVE SumWeights(_)
SumWeights(entries) ==
    IF entries = << >> THEN 0
    ELSE Head(entries).weight + SumWeights(Tail(entries))

TOTAL_WEIGHT == SumWeights(SYMBOL_WEIGHTS)

\* the values randomInt(0, TOTAL_WEIGHT) returns
Rolls == 0..(TOTAL_WEIGHT - 1)

\* a faulty variant of the loop: the comparison is roll <= cumulative
RECURSIVE WalkWeightsInclusive(_, _, _)
WalkWeightsInclusive(roll, i, cumulative) ==
    IF i > Len(SYMBOL_WEIGHTS)
    THEN [symbol |-> "CHERRY", fallback |-> TRUE]
    ELSE IF roll <= cumulative + SYMBOL_WEIGHTS[i].weight
    THEN [symbol |-> SYMBOL_WEIGHTS[i].symbol, fallback |-> FALSE]
    ELSE WalkWeightsInclusive(roll, i + 1, cumulative + SYMBOL_WEIGHTS[i].weight)

\* the loop of getRandomSymbol from entry i on, and the return after it
RECURSIVE WalkWeights(_, _, _)
WalkWeights(roll, i, cumulative) ==
    IF i > Len(SYMBOL_WEIGHTS)
    THEN [symbol |-> "CHERRY", fallback |-> TRUE]
    ELSE IF roll < cumulative + SYMBOL_WEIGHTS[i].weight
    THEN [symbol |-> SYMBOL_WEIGHTS[i].symbol, fallback |-> FALSE]
    ELSE WalkWeights(roll, i + 1, cumulative + SYMBOL_WEIGHTS[i].weight)

\* a faulty variant of getRandomSymbol
getRandomSymbolInclusive(roll) == WalkWeightsInclusive(roll, 1, 0).symbol

\* getRandomSymbol for the value roll of randomInt
getRandomSymbol(roll) == WalkWeights(roll, 1, 0).symbol

\* the symbols getRandomSymbol returns
DrawnSymbols == {getRandomSymbol(roll) : roll \in Rolls}

\* the digits of Number.prototype.toString(36)
Digits36 ==
    <<"0", "1", "2", "3", "4", "5", "6", "7", "8", "9", "a", "b", "c", "d",
      "e", "f", "g", "h", "i", "j", "k", "l", "m", "n", "o", "p", "q", "r",
      "s", "t", "u", "v", "w", "x", "y", "z">>

\* n.toString(36), as the sequence of its digits
RECURSIVE ToString36(_)
ToString36(n) ==
    IF n < 36 THEN <<Digits36[n + 1]>>
    ELSE Append(ToString36(n \div 36), Digits36[(n % 36) + 1])

\* padStart(targetLength, "0") on a sequence of characters
RECURSIVE PadStart(_, _)
PadStart(chars, targetLength) ==
    IF Len(chars) >= targetLength THEN chars
    ELSE PadStart(<<"0">> \o chars, targetLength)

RECURSIVE Join(_)
Join(chars) == IF chars = << >> THEN "" ELSE Head(chars) \o Join(Tail(chars))

\* generateSpinId for the values of Date.now() and randomInt(0, 0xffffff)
generateSpinId(now, random) ==
    "SPIN-" \o Join(ToString36(now)) \o "-" \o Join(PadStart(ToString36(random), 5))

\* the values Date.now() may return: the clock does not go back
Clock == {t \in 1..MaxTime : \A q \in Procs : loc[q].ts <= t}

\* the values of randomInt(0, 0xffffff) drawn for spin ids
SpinIdDraws == {0, 1, 36}

\* bet amounts passed to executeSpin (0 is not a valid bet)
EngineBets == BET_OPTIONS \cup {0}

\* a call of slot p returns with locals l
Returned(p, l) ==
    /\ pc' = [pc EXCEPT ![p] = "done"]
    /\ loc' = [loc EXCEPT ![p] = l]
    /\ resp' = [resp EXCEPT ![p] = [code |-> 200, tag |-> "", body |-> "ok"]]

\* a call of getRandomSymbol
GetRandomSymbol(p) ==
    /\ CanStart(p)
    /\ \E roll \in Rolls :
          Returned(p, [NoLoc EXCEPT !.kind = "draw", !.roll = roll,
                       !.reels = <<getRandomSymbol(roll)>>,
                       !.fallback = WalkWeights(roll, 1, 0).fallback])
    /\ UNCHANGED <<dynamo, users, transactions, payments,
                   processedIdempotencyKeys, idempotency, faults>>

\* a call of generateSpinId
GenerateSpinId(p) ==
    /\ CanStart(p)
    /\ \E now \in Clock, random \in SpinIdDraws :
          Returned(p, [NoLoc EXCEPT !.kind = "spinId", !.ts = now,
                       !.spinId = generateSpinId(now, random)])
    /\ UNCHANGED <<dynamo, users, transactions, payments,
                   processedIdempotencyKeys, idempotency, faults>>

\* a faulty variant of the flag: any three equal symbols
everyReelEqual(reels) == reels[1] = reels[2] /\ reels[2] = reels[3]

\* reels.every((s) => s === "7")
everyReelSeven(reels) == \A i \in 1..Len(reels) : reels[i] = "SEVEN"

\* a call of executeSpin({betAmount: bet, userId: u})
ExecuteSpin(p, u, bet) ==
    /\ CanStart(p)
    /\ LET l == [NoLoc EXCEPT !.kind = "engine", !.userId = u, !.bet = bet] IN
       IF bet <= 0
       THEN Throw(p, l, "Invalid bet amount")
       ELSE \E s1, s2, s3 \in DrawnSymbols, now \in Clock, random \in SpinIdDraws :
               LET reels == <<s1, s2, s3>>
                   multiplier == calculateMultiplier(reels)
                   winAmount == multiplier * bet
                   isJackpot == everyReelSeven(reels)
               IN Returned(p, [l EXCEPT !.reels = reels, !.mult = multiplier,
                                        !.amount = winAmount,
                                        !.isJackpot = isJackpot, !.ts = now,
                                        !.spinId = generateSpinId(now, random),
                                        !.spun = TRUE])
    /\ UNCHANGED <<dynamo, users, transactions, payments,
                   processedIdempotencyKeys, idempotency, faults>>

(***************************************************************************)
(* POST /api/spin                                                          *)
(***************************************************************************)
SpinStart(p, u, bet) ==
    /\ CanStart(p)
    /\ LET l == [NoLoc EXCEPT !.kind = "spin", !.userId = u, !.bet = bet] IN
       IF bet \notin BET_OPTIONS
       THEN /\ Finish(p, l, 400, "", "Invalid bet amount")
            /\ UNCHANGED users
       ELSE EnterGetOrCreateUser(p, [l EXCEPT !.gRet = "spin_check"])
    /\ UNCHANGED <<dynamo, transactions, payments, processedIdempotencyKeys,
                   idempotency, faults>>

\* a faulty variant of the handler: the reels are spun without the debit
SpinCheckSkipsDebit(p) ==
    /\ pc[p] = "spin_check"
    /\ Goto(p, "spin_exec", loc[p])
    /\ UNCHANGED <<dynamo, users, transactions, payments,
                   processedIdempotencyKeys, idempotency, faults>>

\* the advisory balance check, then debitBalance(userId, betAmount, "SPIN_BET")
SpinCheck(p) ==
    /\ pc[p] = "spin_check"
    /\ IF loc[p].uBal < loc[p].bet
       THEN /\ Finish(p, loc[p], 402, "", "Insufficient balance")
            /\ UNCHANGED <<users, transactions>>
       ELSE EnterDebit(p, [loc[p] EXCEPT !.amount = loc[p].bet,
                           !.type = "SPIN_BET", !.dRet = "spin_exec"])
    /\ UNCHANGED <<dynamo, payments, processedIdempotencyKeys, idempotency, faults>>

\* debitBalance returned: executeSpin, then creditBalance of the winnings
\* or, without winnings, the final getOrCreateUser
SpinExec(p) ==
    /\ pc[p] = "spin_exec"
    /\ \E reels \in Reels :
          LET multiplier == calculateMultiplier(reels)
              winAmount == multiplier * loc[p].bet
              l == [loc[p] EXCEPT !.spun = TRUE, !.mult = multiplier,
                                  !.debitTx = loc[p].tx, !.tx = 0]
          IN IF winAmount > 0
             THEN EnterCredit(p, [l EXCEPT !.amount = winAmount,
                                  !.type = "SPIN_WIN", !.key = NoKey,
                                  !.dRet = "spin_won"])
             ELSE /\ EnterGetOrCreateUser(p, [l EXCEPT !.gRet = "spin_resp"])
                  /\ UNCHANGED <<transactions, processedIdempotencyKeys>>
    /\ UNCHANGED <<dynamo, payments, idempotency, faults>>

\* creditBalance returned: the final getOrCreateUser
SpinWon(p) ==
    /\ pc[p] = "spin_won"
    /\ EnterGetOrCreateUser(p, [loc[p] EXCEPT !.gRet = "spin_resp"])
    /\ UNCHANGED <<dynamo, transactions, payments, processedIdempotencyKeys,
                   idempotency, faults>>

(***************************************************************************)
(* POST /api/create-payment                                                *)
(***************************************************************************)
PayStart(p, u, amount) ==
    /\ CanStart(p)
    /\ LET l == [NoLoc EXCEPT !.kind = "pay", !.userId = u, !.amount = amount] IN
       IF amount \notin DOMAIN CREDIT_PACKAGES
       THEN /\ Finish(p, l, 400, "", "Invalid payment amount")
            /\ UNCHANGED users
       ELSE EnterGetOrCreateUser(p, [l EXCEPT !.gRet = "pay_checkout"])
    /\ UNCHANGED <<dynamo, transactions, payments, processedIdempotencyKeys,
                   idempotency, faults>>

NewPayment(l) ==
    [id |-> Len(payments) + 1, userId |-> l.userId,
     externalPaymentId |-> Head(l.ids), amount |-> l.amount,
     status |-> "PENDING", webhookReceived |-> FALSE]

\* checkout ids the provider has not handed out yet
FreeCheckoutIds ==
    (CheckoutIds \ {payments[i].externalPaymentId : i \in 1..Len(payments)})
        \ {Head(loc[q].ids) : q \in {r \in Procs : pc[r] = "pay_put"}}

\* createCheckoutSession returned (a new checkout id, or the provider
\* failed: ""), then createPaymentRecord
PayCheckout(p) ==
    /\ pc[p] = "pay_checkout"
    /\ \E ext \in FreeCheckoutIds \cup {""} :
          IF ext = ""
          THEN /\ Throw(p, loc[p], "Payment provider error")
               /\ UNCHANGED payments
          ELSE LET l == [loc[p] EXCEPT !.ids = <<ext>>] IN
               IF ~dynamo
               THEN /\ payments' = Append(payments, NewPayment(l))
                    /\ Return(p, "pay_done", l)
               ELSE /\ UNCHANGED payments
                    /\ Goto(p, "pay_put", l)
    /\ UNCHANGED <<dynamo, users, transactions, processedIdempotencyKeys,
                   idempotency, faults>>

\* the PutCommand of createPaymentRecord
PayPut(p) ==
    /\ pc[p] = "pay_put"
    /\ dynamo
    /\ payments' = Append(payments, NewPayment(loc[p]))
    /\ Return(p, "pay_done", loc[p])
    /\ UNCHANGED <<dynamo, users, transactions, processedIdempotencyKeys,
                   idempotency, faults>>

(***************************************************************************)
(* lib/payment.ts                                                          *)
(***************************************************************************)
VALID_EVENTS == {"payment.succeeded", "payment.failed", "checkout.completed"}

\* a faulty variant of the verification: an amount of 0 passes
verifyWebhookPayloadZeroAmount(ev) ==
    /\ ev.eventType # ""
    /\ ev.eventType \in VALID_EVENTS
    /\ ~(ev.paymentId = "" /\ ev.checkoutId = "")
    /\ ~(ev.amount # << >> /\ ev.amount[1] < 0)

\* verifyWebhookPayload, on the normalized notification
verifyWebhookPayload(ev) ==
    /\ ev.eventType # ""
    /\ ev.eventType \in VALID_EVENTS
    /\ ~(ev.paymentId = "" /\ ev.checkoutId = "")
    /\ ~(ev.amount # << >> /\ ev.amount[1] <= 0)

getCreditsForAmount(amountCents) ==
    IF amountCents \in DOMAIN CREDIT_PACKAGES THEN CREDIT_PACKAGES[amountCents]
    ELSE amountCents \div 4

generatePaymentIdempotencyKey(checkoutId, paymentId) ==
    "payment_" \o checkoutId \o "_" \o paymentId

(***************************************************************************)
(* POST /api/payment-webhook                                               *)
(***************************************************************************)
\* const checkoutId = normalized?.checkoutId || normalized?.paymentId
HookCheckoutId(ev) == IF ev.checkoutId # "" THEN ev.checkoutId ELSE ev.paymentId

\* the idempotency key the route derives for a notification
HookKey(ev) ==
    generatePaymentIdempotencyKey(HookCheckoutId(ev),
        IF ev.paymentId # "" THEN ev.paymentId ELSE HookCheckoutId(ev))

NonEmpty(s) == s # ""

\* the checkout ids and payment ids of the key specification ("": missing)
KeyIds == {"", "a", "c", "a_b", "b_c"}

\* the route up to the derivation of the idempotency key, for a success
\* notification with the given ids
DeriveKey(p, checkoutId, paymentId) ==
    /\ CanStart(p)
    /\ LET ev == Event("payment.succeeded", checkoutId, paymentId, <<2000>>, "u1")
           l == [NoLoc EXCEPT !.kind = "key", !.ev = ev]
       IN IF ~verifyWebhookPayload(ev)
          THEN Finish(p, l, 200, "REJECTED", "unprocessed")
          ELSE Finish(p, [l EXCEPT !.key = HookKey(ev)], 200, "", "key")
    /\ UNCHANGED <<dynamo, users, transactions, payments,
                   processedIdempotencyKeys, idempotency, faults>>

\* verification, then the first getPaymentByExternalId of the event's branch
HookStart(p, ev) ==
    /\ CanStart(p)
    /\ LET l == [NoLoc EXCEPT !.kind = "hook", !.ev = ev]
           checkoutId == HookCheckoutId(ev)
       IN IF ~verifyWebhookPayload(ev)
          THEN Finish(p, l, 200, "REJECTED", "unprocessed")
          ELSE IF ev.eventType = "payment.failed"
          THEN EnterFind(p, [l EXCEPT !.ids =
                    SelectSeq(<<checkoutId, ev.paymentId>>, NonEmpty)])
          ELSE IF ev.eventType \in {"payment.succeeded", "checkout.completed"}
          THEN IF checkoutId = ""
               THEN Finish(p, l, 200, "REJECTED", "unprocessed")
               ELSE EnterFind(p, [l EXCEPT !.ids =
                        <<checkoutId>> \o SelectSeq(<<ev.paymentId>>, NonEmpty)])
          ELSE Finish(p, l, 200, "PROCESSED", "unprocessed")
    /\ UNCHANGED <<dynamo, users, transactions, payments,
                   processedIdempotencyKeys, idempotency, faults>>

\* payment.failed: a lookup returned; the next lookup, or updatePaymentStatus
HookFailFound(p) ==
    /\ pc[p] = "found"
    /\ loc[p].ev.eventType = "payment.failed"
    /\ LET l == loc[p] IN
       IF l.rec = 0 /\ Len(l.ids) > 1
       THEN /\ EnterFind(p, [l EXCEPT !.ids = Tail(l.ids)])
            /\ UNCHANGED payments
       ELSE IF l.rec # 0
       THEN EnterUpdateStatus(p, [l EXCEPT !.status = "FAILED", !.dRet = "fail_done"])
       ELSE /\ Finish(p, l, 200, "PROCESSED", "processed")
            /\ UNCHANGED payments
    /\ UNCHANGED <<dynamo, users, transactions, processedIdempotencyKeys,
                   idempotency, faults>>

\* the amount declared by the notification, if it is usable
DeclaredAmount(ev) ==
    IF ev.amount # << >> /\ ev.amount[1] > 0 THEN ev.amount ELSE << >>

\* a faulty variant of the resolution: the payment record is not consulted
ResolveAmountDeclaredOnly(ev, rec) ==
    IF DeclaredAmount(ev) # << >> THEN ev.amount[1] ELSE 0

\* const amountCents = ... ? webhookAmount : paymentRecord?.amount  (0: none)
ResolveAmount(ev, rec) ==
    IF DeclaredAmount(ev) # << >> THEN ev.amount[1]
    ELSE IF rec # 0 THEN payments[rec].amount
    ELSE 0

\* success event: a lookup returned; the next lookup, or the amount is
\* resolved and isPaymentProcessed is called
HookSuccFound(p) ==
    /\ pc[p] = "found"
    /\ loc[p].ev.eventType # "payment.failed"
    /\ LET l == loc[p]
           amountCents == ResolveAmount(l.ev, l.rec)
       IN IF l.rec = 0 /\ Len(l.ids) > 1
          THEN EnterFind(p, [l EXCEPT !.ids = Tail(l.ids)])
          ELSE IF amountCents <= 0
          THEN Finish(p, l, 200, "REJECTED", "unprocessed")
          ELSE EnterIsProcessed(p, [l EXCEPT !.cents = amountCents,
                                    !.key = HookKey(l.ev)])
    /\ UNCHANGED <<dynamo, users, transactions, payments,
                   processedIdempotencyKeys, idempotency, faults>>

\* a faulty variant of the validation: the amounts are not compared
AmountMismatchIgnored(rec, cents) == FALSE

\* paymentRecord && resolvedAmountCents !== paymentRecord.amount
AmountMismatch(rec, cents) == rec # 0 /\ cents # payments[rec].amount

\* isPaymentProcessed returned: duplicate check, amount validation, user
\* resolution, then getOrCreateUser(userId)
HookChecked(p) ==
    /\ pc[p] = "hook_checked"
    /\ LET l == loc[p]
           userId == IF l.rec # 0 /\ payments[l.rec].userId # ""
                     THEN payments[l.rec].userId ELSE l.ev.userId
       IN IF l.dup
          THEN /\ Finish(p, l, 200, "DUPLICATE", "duplicate")
               /\ UNCHANGED users
          ELSE IF AmountMismatch(l.rec, l.cents)
          THEN /\ Finish(p, l, 200, "REJECTED", "unprocessed")
               /\ UNCHANGED users
          ELSE IF userId = ""
          THEN /\ Finish(p, l, 200, "ERROR", "unprocessed")
               /\ UNCHANGED users
          ELSE EnterGetOrCreateUser(p,
                    [l EXCEPT !.userId = userId,
                              !.amount = getCreditsForAmount(l.cents),
                              !.type = "CREDIT_PURCHASE", !.gRet = "hook_credit"])
    /\ UNCHANGED <<dynamo, transactions, payments, processedIdempotencyKeys,
                   idempotency, faults>>

\* getOrCreateUser returned: creditBalance(userId, credits, ..., idempotencyKey)
HookCredit(p) ==
    /\ pc[p] = "hook_credit"
    /\ EnterCredit(p, [loc[p] EXCEPT !.dRet = "hook_status"])
    /\ UNCHANGED <<dynamo, payments, idempotency, faults>>

\* creditBalance returned: updatePaymentStatus(paymentRecord.id, "COMPLETED")
HookStatus(p) ==
    /\ pc[p] = "hook_status"
    /\ IF loc[p].rec # 0
       THEN EnterUpdateStatus(p, [loc[p] EXCEPT !.status = "COMPLETED",
                                  !.dRet = "hook_done"])
       ELSE /\ Finish(p, loc[p], 200, "PROCESSED", "credited")
            /\ UNCHANGED payments
    /\ UNCHANGED <<dynamo, users, transactions, processedIdempotencyKeys,
                   idempotency, faults>>

(***************************************************************************)
(* Specifications                                                          *)
(***************************************************************************)
\* the whole system: every route and the ledger primitives, both backends,
\* transient storage errors
Next ==
    \E p \in 1..NProcs :
        \/ GetOrCreateUser(p)
        \/ GucPut(p)
        \/ GucRetry(p)
        \/ DebUpdate(p)
        \/ DebPut(p)
        \/ DebCatch(p)
        \/ CredReserve(p)
        \/ CredExisting(p)
        \/ CredFindById(p)
        \/ CredFindByKey(p)
        \/ CredUpdate(p)
        \/ CredPut(p)
        \/ CredComplete(p)
        \/ StorageFault(p)
        \/ \E u \in UserIds : QueryStart(p, u)
        \/ QueryHistory(p)
        \/ \E u \in UserIds, a \in LedgerAmounts : DebitStart(p, u, a)
        \/ \E u \in UserIds, a \in LedgerAmounts : CreditStart(p, u, a, NoKey)
        \/ \E u \in UserIds, bet \in SpinBets : SpinStart(p, u, bet)
        \/ SpinCheck(p)
        \/ SpinExec(p)
        \/ SpinWon(p)
        \/ \E u \in UserIds, a \in PayAmounts : PayStart(p, u, a)
        \/ PayCheckout(p)
        \/ PayPut(p)
        \/ \E ev \in HookEvents : HookStart(p, ev)
        \/ FindPayment(p)
        \/ HookFailFound(p)
        \/ HookSuccFound(p)
        \/ IsPaymentProcessed(p)
        \/ HookChecked(p)
        \/ HookCredit(p)
        \/ HookStatus(p)
        \/ UpdatePaymentStatus(p)

Spec == Init /\ [][Next]_vars


\* racing debits: only debitBalance calls, on an account that exists with
\* its initial balance; no storage errors
InitRace ==
    /\ dynamo \in BOOLEAN
    /\ users = ("u1" :> INITIAL_BALANCE)
    /\ transactions = << >>
    /\ payments = << >>
    /\ processedIdempotencyKeys = {}
    /\ idempotency = << >>
    /\ faults = 0
    /\ Idle(NRace)

NextRace ==
    \E p \in 1..NRace :
        \/ \E a \in RaceAmounts : DebitStart(p, "u1", a)
        \/ GetOrCreateUser(p)
        \/ DebUpdate(p)
        \/ DebPut(p)
        \/ DebCatch(p)

SpecRace == InitRace /\ [][NextRace]_vars

\* a spin next to a debit that drains the account and a credit that refills
\* it, in any order, on an account that exists with its initial balance; no storage errors
InitSpin ==
    /\ dynamo \in BOOLEAN
    /\ users = ("u1" :> INITIAL_BALANCE)
    /\ transactions = << >>
    /\ payments = << >>
    /\ processedIdempotencyKeys = {}
    /\ idempotency = << >>
    /\ faults = 0
    /\ Idle(NSpin)

\* no request of this kind has been made yet
First(kind) == \A q \in Procs : loc[q].kind # kind

NextSpin ==
    \E p \in 1..NSpin :
        \/ First("spin") /\ SpinStart(p, "u1", 10)
        \/ First("debit") /\ DebitStart(p, "u1", INITIAL_BALANCE)
        \/ First("credit") /\ CreditStart(p, "u1", 600, NoKey)
        \/ GetOrCreateUser(p)
        \/ SpinCheck(p)
        \/ SpinExec(p)
        \/ SpinWon(p)
        \/ DebUpdate(p)
        \/ DebPut(p)
        \/ DebCatch(p)
        \/ CredUpdate(p)
        \/ CredPut(p)

SpecSpin == InitSpin /\ [][NextSpin]_vars

\* payments: the create-payment and payment-webhook routes, no storage errors
InitHook ==
    /\ dynamo \in BOOLEAN
    /\ EmptyStores
    /\ Idle(NHook)

NextHook ==
    \E p \in 1..NHook :
        \/ GetOrCreateUser(p)
        \/ GucPut(p)
        \/ GucRetry(p)
        \/ CredReserve(p)
        \/ CredExisting(p)
        \/ CredFindById(p)
        \/ CredFindByKey(p)
        \/ CredUpdate(p)
        \/ CredPut(p)
        \/ CredComplete(p)
        \/ \E u \in UserIds, a \in PayAmounts : PayStart(p, u, a)
        \/ PayCheckout(p)
        \/ PayPut(p)
        \/ \E ev \in HookEvents : HookStart(p, ev)
        \/ FindPayment(p)
        \/ HookFailFound(p)
        \/ HookSuccFound(p)
        \/ IsPaymentProcessed(p)
        \/ HookChecked(p)
        \/ HookCredit(p)
        \/ HookStatus(p)
        \/ UpdatePaymentStatus(p)

SpecHook == InitHook /\ [][NextHook]_vars

\* intake of notifications: the create-payment and payment-webhook routes
\* with well-formed and malformed notifications, no storage errors
InitIntake ==
    /\ dynamo \in BOOLEAN
    /\ EmptyStores
    /\ Idle(NIntake)

NextIntake ==
    \E p \in 1..NIntake :
        \/ GetOrCreateUser(p)
        \/ GucPut(p)
        \/ GucRetry(p)
        \/ CredReserve(p)
        \/ CredExisting(p)
        \/ CredFindById(p)
        \/ CredFindByKey(p)
        \/ CredUpdate(p)
        \/ CredPut(p)
        \/ CredComplete(p)
        \/ \E u \in UserIds, a \in PayAmounts : PayStart(p, u, a)
        \/ PayCheckout(p)
        \/ PayPut(p)
        \/ \E ev \in IntakeEvents : HookStart(p, ev)
        \/ FindPayment(p)
        \/ HookFailFound(p)
        \/ HookSuccFound(p)
        \/ IsPaymentProcessed(p)
        \/ HookChecked(p)
        \/ HookCredit(p)
        \/ HookStatus(p)
        \/ UpdatePaymentStatus(p)

SpecIntake == InitIntake /\ [][NextIntake]_vars

\* the slot engine alone: calls of executeSpin
InitEngine ==
    /\ dynamo = FALSE
    /\ EmptyStores
    /\ Idle(NEngine)

NextEngine == \E p \in 1..NEngine : \E bet \in EngineBets : ExecuteSpin(p, "u1", bet)

SpecEngine == InitEngine /\ [][NextEngine]_vars

\* the weighted draw alone: calls of getRandomSymbol
InitDraw ==
    /\ dynamo = FALSE
    /\ EmptyStores
    /\ Idle(NDraw)

NextDraw == \E p \in 1..NDraw : GetRandomSymbol(p)

SpecDraw == InitDraw /\ [][NextDraw]_vars

\* spin ids alone: calls of generateSpinId
InitSpinId ==
    /\ dynamo = FALSE
    /\ EmptyStores
    /\ Idle(NSpinId)

NextSpinId == \E p \in 1..NSpinId : GenerateSpinId(p)

SpecSpinId == InitSpinId /\ [][NextSpinId]_vars

\* a PENDING payment record as create-payment stores it
Attempt(id, u, ext, amount) ==
    [id |-> id, userId |-> u, externalPaymentId |-> ext, amount |-> amount,
     status |-> "PENDING", webhookReceived |-> FALSE]

\* purchases: the payment-webhook route after u1 has started the payment
\* chk_1 of 2000 and possibly a second payment chk_2 of 3500; no storage
\* errors
InitPurchase ==
    /\ dynamo \in BOOLEAN
    /\ users = ("u1" :> INITIAL_BALANCE)
    /\ transactions = << >>
    /\ payments \in {<<Attempt(1, "u1", "chk_1", 2000)>>,
                      <<Attempt(1, "u1", "chk_1", 2000),
                        Attempt(2, "u1", "chk_2", 3500)>>}
    /\ processedIdempotencyKeys = {}
    /\ idempotency = << >>
    /\ faults = 0
    /\ Idle(NPurchase)

NextPurchase ==
    \E p \in 1..NPurchase :
        \/ GetOrCreateUser(p)
        \/ GucPut(p)
        \/ GucRetry(p)
        \/ CredReserve(p)
        \/ CredExisting(p)
        \/ CredFindById(p)
        \/ CredFindByKey(p)
        \/ CredUpdate(p)
        \/ CredPut(p)
        \/ CredComplete(p)
        \/ \E ev \in PurchaseEvents : HookStart(p, ev)
        \/ FindPayment(p)
        \/ HookFailFound(p)
        \/ HookSuccFound(p)
        \/ IsPaymentProcessed(p)
        \/ HookChecked(p)
        \/ HookCredit(p)
        \/ HookStatus(p)
        \/ UpdatePaymentStatus(p)

SpecPurchase == InitPurchase /\ [][NextPurchase]_vars

\* the success notification of the payment of 2000 cents
PaidEvent == Event("payment.succeeded", "chk_1", "pay_1", <<2000>>, "u1")

\* the provider delivers a notification again after a failure response
\* (the slot of the failed delivery takes the new delivery)
Redeliver(p) ==
    /\ pc[p] = "done"
    /\ resp[p].code = 500
    /\ pc' = [pc EXCEPT ![p] = "idle"]
    /\ loc' = [loc EXCEPT ![p] = NoLoc]
    /\ resp' = [resp EXCEPT ![p] = NoResp]
    /\ UNCHANGED <<dynamo, users, transactions, payments,
                   processedIdempotencyKeys, idempotency, faults>>

\* redelivery: one success notification, delivered again after every
\* failure response; storage errors
InitRetry ==
    /\ dynamo \in BOOLEAN
    /\ EmptyStores
    /\ Idle(NRetry)

\* the steps of the delivery in slot p, storage errors aside
ProgressRetry(p) ==
    \/ HookStart(p, PaidEvent)
    \/ FindPayment(p)
    \/ HookSuccFound(p)
    \/ IsPaymentProcessed(p)
    \/ HookChecked(p)
    \/ HookCredit(p)
    \/ HookStatus(p)
    \/ GetOrCreateUser(p)
    \/ GucPut(p)
    \/ GucRetry(p)
    \/ CredReserve(p)
    \/ CredExisting(p)
    \/ CredFindById(p)
    \/ CredFindByKey(p)
    \/ CredUpdate(p)
    \/ CredPut(p)
    \/ CredComplete(p)
    \/ Redeliver(p)

NextRetry ==
    \E p \in 1..NRetry :
        \/ HookStart(p, PaidEvent)
        \/ FindPayment(p)
        \/ HookSuccFound(p)
        \/ IsPaymentProcessed(p)
        \/ HookChecked(p)
        \/ HookCredit(p)
        \/ HookStatus(p)
        \/ GetOrCreateUser(p)
        \/ GucPut(p)
        \/ GucRetry(p)
        \/ CredReserve(p)
        \/ CredExisting(p)
        \/ CredFindById(p)
        \/ CredFindByKey(p)
        \/ CredUpdate(p)
        \/ CredPut(p)
        \/ CredComplete(p)
        \/ Redeliver(p)
        \/ StorageFault(p)

\* a started handler runs on and the provider keeps redelivering; storage
\* errors are not owed
SpecRetry ==
    /\ InitRetry
    /\ [][NextRetry]_vars
    /\ \A p \in 1..NRetry : WF_vars(ProgressRetry(p))

\* the ledger: direct debitBalance and creditBalance calls on an account
\* that exists or not, no storage errors
InitLedger ==
    /\ dynamo \in BOOLEAN
    /\ users \in {<< >>, ("u1" :> INITIAL_BALANCE)}
    /\ transactions = << >>
    /\ payments = << >>
    /\ processedIdempotencyKeys = {}
    /\ idempotency = << >>
    /\ faults = 0
    /\ Idle(NLedger)

NextLedger ==
    \E p \in 1..NLedger :
        \/ \E a \in DirectAmounts : DebitStart(p, "u1", a)
        \/ \E a \in DirectAmounts, k \in CreditKeys : CreditStart(p, "u1", a, k)
        \/ GetOrCreateUser(p)
        \/ GucPut(p)
        \/ GucRetry(p)
        \/ DebUpdate(p)
        \/ DebPut(p)
        \/ DebCatch(p)
        \/ CredReserve(p)
        \/ CredExisting(p)
        \/ CredFindById(p)
        \/ CredFindByKey(p)
        \/ CredUpdate(p)
        \/ CredPut(p)
        \/ CredComplete(p)

SpecLedger == InitLedger /\ [][NextLedger]_vars

\* the queries next to debits and credits of an account that exists
InitQuery ==
    /\ dynamo \in BOOLEAN
    /\ users = ("u1" :> INITIAL_BALANCE)
    /\ transactions = << >>
    /\ payments = << >>
    /\ processedIdempotencyKeys = {}
    /\ idempotency = << >>
    /\ faults = 0
    /\ Idle(NQuery)

NextQuery ==
    \E p \in 1..NQuery :
        \/ \E a \in DirectAmounts : DebitStart(p, "u1", a)
        \/ \E a \in DirectAmounts : CreditStart(p, "u1", a, NoKey)
        \/ \E limit \in QueryLimits : GetAllTransactions(p, limit)
        \/ \E limit \in QueryLimits : GetTransactionHistory(p, "u1", limit)
        \/ AllScan(p)
        \/ QueryHistory(p)
        \/ GetOrCreateUser(p)
        \/ DebUpdate(p)
        \/ DebPut(p)
        \/ DebCatch(p)
        \/ CredUpdate(p)
        \/ CredPut(p)

SpecQuery == InitQuery /\ [][NextQuery]_vars

\* every operation of db.ts on two accounts, one of which exists and has a
\* pending payment
InitMutators ==
    /\ dynamo \in BOOLEAN
    /\ users = ("u1" :> INITIAL_BALANCE)
    /\ transactions = << >>
    /\ payments = <<[id |-> 1, userId |-> "u1", externalPaymentId |-> "chk_0",
                     amount |-> 2000, status |-> "PENDING",
                     webhookReceived |-> FALSE]>>
    /\ processedIdempotencyKeys = {}
    /\ idempotency = << >>
    /\ faults = 0
    /\ Idle(NMutators)

NextMutators ==
    \E p \in 1..NMutators :
        \/ \E u \in MutatorUsers : DebitStart(p, u, 600)
        \/ \E u \in MutatorUsers, k \in CreditKeys : CreditStart(p, u, 600, k)
        \/ \E u \in MutatorUsers : GetOrCreateUserCall(p, u)
        \/ \E u \in MutatorUsers : UpdateUserProfile(p, u)
        \/ ProfileUpdate(p)
        \/ \E u \in MutatorUsers : PayStart(p, u, 2000)
        \/ PayCheckout(p)
        \/ PayPut(p)
        \/ \E rec \in 1..Len(payments), st \in PaymentStatuses :
              UpdatePaymentStatusCall(p, rec, st)
        \/ UpdatePaymentStatus(p)
        \/ \E k \in CreditKeys \ {NoKey} : IsPaymentProcessedCall(p, k)
        \/ IsPaymentProcessedGet(p)
        \/ \E u \in MutatorUsers : GetTransactionHistory(p, u, 50)
        \/ GetAllTransactions(p, 50)
        \/ AllScan(p)
        \/ QueryHistory(p)
        \/ GetOrCreateUser(p)
        \/ GucPut(p)
        \/ GucRetry(p)
        \/ DebUpdate(p)
        \/ DebPut(p)
        \/ DebCatch(p)
        \/ CredReserve(p)
        \/ CredExisting(p)
        \/ CredFindById(p)
        \/ CredFindByKey(p)
        \/ CredUpdate(p)
        \/ CredPut(p)
        \/ CredComplete(p)

SpecMutators == InitMutators /\ [][NextMutators]_vars

\* sequences of getOrCreateUser, debitBalance, creditBalance and
\* isPaymentProcessed calls on empty stores, each call awaited before the
\* next one is made, on either backend
InitBackends ==
    /\ dynamo \in BOOLEAN
    /\ EmptyStores
    /\ Idle(NBackends)

\* no call is in progress
Awaited == \A q \in Procs : pc[q] \in {"idle", "done"}

NextBackends ==
    \E p \in 1..NBackends :
        \/ Awaited /\ GetOrCreateUserCall(p, "u1")
        \/ Awaited /\ \E a \in DirectAmounts : DebitStart(p, "u1", a)
        \/ Awaited /\ \E a \in DirectAmounts, k \in CreditKeys : CreditStart(p, "u1", a, k)
        \/ Awaited /\ \E k \in CreditKeys \ {NoKey} : IsPaymentProcessedCall(p, k)
        \/ IsPaymentProcessedGet(p)
        \/ GetOrCreateUser(p)
        \/ GucPut(p)
        \/ DebUpdate(p)
        \/ DebPut(p)
        \/ DebCatch(p)
        \/ CredReserve(p)
        \/ CredExisting(p)
        \/ CredFindById(p)
        \/ CredFindByKey(p)
        \/ CredUpdate(p)
        \/ CredPut(p)
        \/ CredComplete(p)

SpecBackends == InitBackends /\ [][NextBackends]_vars

\* the idempotency keys of notifications
InitKey ==
    /\ dynamo = FALSE
    /\ EmptyStores
    /\ Idle(NKey)

NextKey ==
    \E p \in 1..NKey : \E checkoutId, paymentId \in KeyIds :
        DeriveKey(p, checkoutId, paymentId)

SpecKey == InitKey /\ [][NextKey]_vars

\* one spin of the engine next to calls of calculateTheoreticalRTP
InitRtp ==
    /\ dynamo = FALSE
    /\ EmptyStores
    /\ Idle(NRtp)

NextRtp ==
    \E p \in 1..NRtp :
        \/ CalculateTheoreticalRTP(p)
        \/ First("engine") /\ \E bet \in EngineBets : ExecuteSpin(p, "u1", bet)

SpecRtp == InitRtp /\ [][NextRtp]_vars

(***************************************************************************)
(* Properties                                                              *)
(***************************************************************************)
\* no request is in progress
Quiescent == \A p \in Procs : pc[p] \in {"idle", "done"}

BalanceMatchesLog ==
    \A u \in DOMAIN users : users[u] = INITIAL_BALANCE + SumAmounts(transactions, u)

TxOfType(u, type) ==
    {i \in 1..Len(transactions) :
        transactions[i].userId = u /\ transactions[i].type = type}

Min(a, b) == IF a <= b THEN a ELSE b

\* C1: whenever no call is in progress (after any finite sequence of spins,
\* webhook deliveries and direct debits and credits, failed calls included),
\* every account's balance is 1000 plus the sum of the amounts of its
\* recorded transactions.
BalanceEqualsLedgerSum == Quiescent => BalanceMatchesLog

\* C2: in every state (each one can be read by a concurrent getOrCreateUser
\* or getTransactionHistory), a balance change and its transaction record
\* are both visible or both absent: the balance is 1000 plus the recorded
\* amounts also while a debit or credit is in progress.
AtomicBalanceAndLog ==
    \A u \in DOMAIN users :
        users[u] - SumAmounts(transactions, u) = INITIAL_BALANCE

\* C3: in every reachable state every account's balance is >= 0.
NonNegative == \A u \in DOMAIN users : users[u] >= 0

\* a debit was refused for lack of funds and the balance is still below it
DebitRefused ==
    \E p \in Procs :
        /\ pc[p] = "done"
        /\ loc[p].kind = "debit"
        /\ resp[p].body = "Insufficient balance"
        /\ loc[p].userId \in DOMAIN users
        /\ users[loc[p].userId] >= 0
        /\ users[loc[p].userId] < loc[p].amount

\* the debits that returned a transaction
Succeeded == {p \in Procs : pc[p] = "done" /\ resp[p].code = 200}

RECURSIVE SumDebited(_)
SumDebited(S) ==
    IF S = {} THEN 0
    ELSE LET p == CHOOSE q \in S : TRUE IN loc[p].amount + SumDebited(S \ {p})

\* C4: racing debits on one account, with no credit in between: the debits
\* that succeed never add up to more than the balance at the start, and
\* when all k debits have the same amount a, exactly min(k, 1000 \div a)
\* of them succeed and every other one fails with "Insufficient balance".
RacingDebitsSerialized ==
    /\ SumDebited(Succeeded) <= INITIAL_BALANCE
    /\ \A a \in RaceAmounts :
          (\A p \in Procs : pc[p] = "done" /\ loc[p].amount = a) =>
              /\ Cardinality(Succeeded) =
                    Min(Cardinality(Procs), INITIAL_BALANCE \div a)
              /\ \A p \in Procs \ Succeeded :
                    resp[p].body = "Insufficient balance"

\* three debits of 400 have raced: two succeeded, one was refused
RaceDecided ==
    /\ \A p \in Procs : pc[p] = "done" /\ loc[p].amount = 400
    /\ Cardinality(Succeeded) = 2
    /\ \E p \in Procs : resp[p].body = "Insufficient balance"

\* the webhook deliveries so far
Deliveries == {p \in Procs : loc[p].kind = "hook"}

\* C5: once deliveries of one success notification have ended, and one of
\* them ended otherwise than by a storage error of its own (a delivery, or
\* the retry of a failed one), exactly one CREDIT_PURCHASE transaction
\* carries the notification's idempotency key, and the balance has grown
\* by the credits once.
ExactlyOnceCredit ==
    (/\ Quiescent
     /\ \A p \in Deliveries : loc[p].ev = PaidEvent
     /\ \E p \in Deliveries : resp[p].body # "storage error")
    => /\ Cardinality(TxWithKey(HookKey(PaidEvent))) = 1
       /\ \A i \in TxWithKey(HookKey(PaidEvent)) :
             /\ transactions[i].type = "CREDIT_PURCHASE"
             /\ transactions[i].amount = getCreditsForAmount(2000)
       /\ (\A p \in Procs : loc[p].kind \in {"", "hook", "pay", "query"})
             => /\ "u1" \in DOMAIN users
                /\ users["u1"] = INITIAL_BALANCE + getCreditsForAmount(2000)

\* C6: once N deliveries of one success notification have ended, all N
\* were answered with success, exactly one as PROCESSED (credited) and the
\* other N-1 as DUPLICATE, and the balance has grown by the credits once.
DuplicateResponses ==
    (/\ Deliveries # {}
     /\ \A p \in Deliveries : loc[p].ev = PaidEvent /\ pc[p] = "done")
    => /\ \A p \in Deliveries :
             resp[p].code = 200 /\ resp[p].tag \in {"PROCESSED", "DUPLICATE"}
       /\ Cardinality({p \in Deliveries : resp[p].tag = "PROCESSED"}) = 1
       /\ "u1" \in DOMAIN users
       /\ users["u1"] = INITIAL_BALANCE + getCreditsForAmount(2000)

\* the spin requests whose reels have been spun
Spun == {p \in Procs : loc[p].kind = "spin" /\ loc[p].spun}

\* C7: the reels are spun only after the debit of the bet has succeeded:
\* there are at least as many SPIN_BET transactions as spun requests, a
\* spin whose debit failed has no outcome, and in every prefix of the log
\* the SPIN_WIN transactions of an account are outnumbered by the SPIN_BET
\* transactions before them.
DebitBeforeSpin ==
    /\ \A u \in UserIds :
          /\ Cardinality({p \in Spun : loc[p].userId = u})
                <= Cardinality(TxOfType(u, "SPIN_BET"))
          /\ \A j \in TxOfType(u, "SPIN_WIN") :
                Cardinality({i \in TxOfType(u, "SPIN_WIN") : i <= j})
                    <= Cardinality({i \in TxOfType(u, "SPIN_BET") : i < j})
    /\ \A p \in Procs :
          (loc[p].kind = "spin" /\ pc[p] = "done"
              /\ resp[p].body \in {"Insufficient balance", "Debit failed",
                                   "User not found", "Invalid bet amount"})
          => ~loc[p].spun

\* a spin has won: its SPIN_BET is in the log before its SPIN_WIN
SpinPaidOut ==
    \E p \in Spun :
        /\ pc[p] = "done"
        /\ loc[p].mult > 0
        /\ \E i, j \in 1..Len(transactions) :
              /\ i < j
              /\ transactions[i].type = "SPIN_BET"
              /\ transactions[j].type = "SPIN_WIN"
              /\ transactions[j].amount = loc[p].mult * loc[p].bet

\* delivery p is a success notification that has resolved to a payment
\* record whose amount differs from the amount the notification declares
MismatchedDelivery(p) ==
    /\ loc[p].kind = "hook"
    /\ loc[p].ev.eventType \in {"payment.succeeded", "checkout.completed"}
    /\ loc[p].rec # 0
    /\ DeclaredAmount(loc[p].ev) # << >>
    /\ loc[p].ev.amount[1] # payments[loc[p].rec].amount

TerminalStatusKept ==
    [][\A i \in DOMAIN payments :
          payments[i].status \in {"COMPLETED", "FAILED"}
          => payments'[i].status = payments[i].status]_vars

\* C10: in no state is the idempotency key of a delivery completed
\* (isPaymentProcessed true) while its credit transaction is missing or the
\* payment record it resolved to is still PENDING.
CompletedAfterBoth ==
    \A p \in Deliveries :
        (loc[p].key # NoKey /\ IsProcessed(loc[p].key))
        => /\ TxWithKey(loc[p].key) # {}
           /\ loc[p].rec # 0 => payments[loc[p].rec].status # "PENDING"

\* a delivery has reserved the key and failed before the credit was recorded
CrashedReservation ==
    /\ dynamo
    /\ HookKey(PaidEvent) \in DOMAIN idempotency
    /\ idempotency[HookKey(PaidEvent)].status = "RESERVED"
    /\ TxWithKey(HookKey(PaidEvent)) = {}
    /\ \E p \in Deliveries : pc[p] = "done" /\ resp[p].body = "storage error"

\* C11: when a delivery has reserved its idempotency key and failed before
\* the credit was recorded, repeated redelivery of the notification leads
\* to a state where the credit transaction is recorded.
CrashedReserveRecovers ==
    CrashedReservation ~> (TxWithKey(HookKey(PaidEvent)) # {})

\* the direct creditBalance calls with key k that have returned a transaction
ReturnedCredits(k) ==
    {p \in Procs : /\ loc[p].kind = "credit"
                   /\ loc[p].key = k
                   /\ pc[p] = "done"
                   /\ resp[p].code = 200}

\* the credit transactions recorded with key k
CreditTxs(k) == {i \in TxWithKey(k) : transactions[i].amount > 0}

StepOf(p) == <<pc[p], loc[p], resp[p]>>' # <<pc[p], loc[p], resp[p]>>

\* the step ends slot p's call with an error
FailsNow(p) == pc[p] # "done" /\ pc'[p] = "done" /\ resp'[p].code # 200

\* C13: a debitBalance call never creates an account; it fails when the
\* amount is not positive; the step that ends it with an error changes
\* neither a balance nor the log; a step of the call that changes a balance
\* takes the amount from the account, which holds at least that much; and
\* the only transaction a call appends is one of minus the amount.
DebitErrorContract ==
    [][\A p \in Procs :
         StepOf(p) /\ loc'[p].kind = "debit" =>
            LET u == loc'[p].userId
                a == loc'[p].amount
            IN /\ DOMAIN users' = DOMAIN users
               /\ pc[p] = "idle" /\ a <= 0 => FailsNow(p)
               /\ FailsNow(p) => users' = users /\ transactions' = transactions
               /\ users' # users =>
                     /\ users[u] >= a
                     /\ users' = [users EXCEPT ![u] = @ - a]
               /\ transactions' # transactions =>
                     /\ Len(transactions') = Len(transactions) + 1
                     /\ SubSeq(transactions', 1, Len(transactions)) = transactions
                     /\ transactions'[Len(transactions')].amount = -a]_vars

\* C14: a creditBalance call never creates an account; it fails when the
\* amount is not positive; and the step that ends it with an error leaves
\* the balances, the log and the processed and reserved keys as they were.
CreditErrorContract ==
    [][\A p \in Procs :
         StepOf(p) /\ loc'[p].kind = "credit" =>
            /\ DOMAIN users' = DOMAIN users
            /\ pc[p] = "idle" /\ loc'[p].amount <= 0 => FailsNow(p)
            /\ FailsNow(p) =>
                  /\ users' = users
                  /\ transactions' = transactions
                  /\ processedIdempotencyKeys' = processedIdempotencyKeys
                  /\ idempotency' = idempotency]_vars

\* slot p holds a successful spin and no other request has been made
SpinAlone(p) ==
    /\ loc[p].kind = "spin"
    /\ pc[p] = "done"
    /\ resp[p].body = "spin"
    /\ \A q \in Procs \ {p} : pc[q] = "idle"

\* C15: after a successful spin that ran alone on its account, the log
\* holds exactly one SPIN_BET of minus the bet and, if and only if the
\* winnings are positive, one SPIN_WIN of the winnings after it, and
\* nothing else; the balance of the response and of the account is the
\* balance before minus the bet plus the winnings; the response carries
\* the ids of the two transactions (none for the win when nothing was
\* won); and three of the rarest symbol pay fifty times the bet, so that a
\* bet of 10 records -10 and +500.
SpinEffect ==
    /\ calculateMultiplier(<<"SEVEN", "SEVEN", "SEVEN">>) = 50
    /\ \A p \in Procs :
          SpinAlone(p) =>
             LET u == loc[p].userId
                 bet == loc[p].bet
                 winAmount == loc[p].mult * bet
             IN /\ Len(transactions) = (IF winAmount > 0 THEN 2 ELSE 1)
                /\ transactions[1].type = "SPIN_BET"
                /\ transactions[1].userId = u
                /\ transactions[1].amount = -bet
                /\ loc[p].debitTx = transactions[1].id
                /\ IF winAmount > 0
                   THEN /\ transactions[2].type = "SPIN_WIN"
                        /\ transactions[2].userId = u
                        /\ transactions[2].amount = winAmount
                        /\ loc[p].tx = transactions[2].id
                   ELSE loc[p].tx = 0
                /\ loc[p].uBal = INITIAL_BALANCE - bet + winAmount
                /\ users[u] = INITIAL_BALANCE - bet + winAmount
                /\ loc[p].mult = 50 /\ bet = 10 =>
                      /\ transactions[1].amount = -10
                      /\ transactions[2].amount = 500

\* a spin alone with three of the rarest symbol and a bet of 10
JackpotAlone ==
    \E p \in Procs :
        /\ SpinAlone(p)
        /\ loc[p].mult = 50
        /\ loc[p].bet = 10
        /\ Len(transactions) = 2
        /\ users[loc[p].userId] = 1490

\* C17: a spin request whose bet is not one of 1, 5, 10, 25, 50, 100 is
\* answered 400 in the step that receives it, without an outcome, and
\* that step creates no account, changes no balance and records no
\* transaction (nor anything else).
InvalidBetRejected ==
    [][\A p \in Procs :
         /\ pc[p] = "idle"
         /\ loc'[p].kind = "spin"
         /\ loc'[p].bet \notin {1, 5, 10, 25, 50, 100}
         => /\ pc'[p] = "done"
            /\ resp'[p].code = 400
            /\ ~loc'[p].spun
            /\ users' = users
            /\ transactions' = transactions
            /\ payments' = payments
            /\ processedIdempotencyKeys' = processedIdempotencyKeys
            /\ idempotency' = idempotency]_vars

\* a spin with a bet of 7 was rejected and there is still no account
BetOfSevenRejected ==
    \E p \in Procs :
        /\ loc[p].kind = "spin"
        /\ loc[p].bet = 7
        /\ pc[p] = "done"
        /\ resp[p].code = 400
        /\ users = << >>
        /\ transactions = << >>

\* the spin of slot p was debited and spun, won, and the credit of the
\* winnings failed: no SPIN_WIN was recorded
CreditAfterDebitFailed(p) ==
    /\ loc[p].kind = "spin"
    /\ pc[p] = "done"
    /\ loc[p].spun
    /\ loc[p].mult > 0
    /\ resp[p].code # 200
    /\ TxOfType(loc[p].userId, "SPIN_WIN") = {}

\* the spin of slot q failed before the reels were spun
FailedBeforeSpin(q) ==
    /\ loc[q].kind = "spin"
    /\ pc[q] = "done"
    /\ ~loc[q].spun
    /\ resp[q].code # 200

\* C18: the response of a spin whose credit failed after its debit differs
\* from the response of every spin that failed earlier (invalid bet,
\* insufficient balance, failed debit), and the SPIN_BET of the debit
\* stays in the log.
CreditFailureDistinct ==
    \A p \in Procs :
       CreditAfterDebitFailed(p) =>
          /\ TxOfType(loc[p].userId, "SPIN_BET") # {}
          /\ \A q \in Procs : FailedBeforeSpin(q) => resp[q] # resp[p]

\* C16: a spin that is refused because its bet exceeds the balance, by the
\* advisory check or by the check inside debitBalance, is answered with
\* the insufficient-balance error and has no outcome; the refused spins
\* record nothing: there are as many SPIN_BET transactions as spun
\* requests, and the step that refuses a spin changes no balance.
InsufficientSpinRejected ==
    [][\A p \in Procs :
         loc'[p].kind = "spin" /\ pc[p] # "done" /\ pc'[p] = "done"
            /\ resp'[p].code # 200
         => /\ resp'[p].body = "Insufficient balance"
            /\ ~loc'[p].spun
            /\ users' = users
            /\ transactions' = transactions
            /\ Cardinality(TxOfType(loc'[p].userId, "SPIN_BET"))
                  = Cardinality({q \in Spun : loc[q].userId = loc'[p].userId})]_vars

\* the failures of a delivery that pass: a storage call was rejected, or
\* another delivery holds the reservation of the key
TransientFailures == {"storage error", "Payment already processed"}

\* C19: a delivery is answered with a failure status only for a transient
\* failure during crediting; a delivery that fails for a reason its payload
\* determines (malformed or unrecognized, amount mismatch, no user, an
\* amount that converts to no credits) is acknowledged with status 200.
AckUnlessTransient ==
    \A p \in Deliveries :
        pc[p] = "done" /\ resp[p].code # 200 => resp[p].body \in TransientFailures

\* the notification has one of the three event types, at least one of the
\* two identifiers, and no amount or a positive one
WellFormed(ev) ==
    /\ ev.eventType \in {"payment.succeeded", "payment.failed", "checkout.completed"}
    /\ ev.paymentId # "" \/ ev.checkoutId # ""
    /\ ev.amount = << >> \/ ev.amount[1] > 0

\* C20: the step that receives a notification rejects it if and only if it
\* is not well-formed (event type outside the three known ones or absent,
\* no payment and no checkout identifier, or an amount that is present and
\* not positive); the rejected delivery is logged REJECTED, acknowledged
\* with status 200, and changes no store.
StructuralValidation ==
    [][\A p \in Procs :
         pc[p] = "idle" /\ loc'[p].kind = "hook" =>
            IF WellFormed(loc'[p].ev)
            THEN ~(pc'[p] = "done" /\ resp'[p].tag = "REJECTED")
            ELSE /\ pc'[p] = "done"
                 /\ resp'[p].tag = "REJECTED"
                 /\ resp'[p].code = 200
                 /\ users' = users
                 /\ transactions' = transactions
                 /\ payments' = payments
                 /\ processedIdempotencyKeys' = processedIdempotencyKeys
                 /\ idempotency' = idempotency]_vars

\* a notification with an amount of 0 was rejected next to a recorded
\* payment, which is still PENDING
ZeroAmountRejected ==
    \E p \in Deliveries :
        /\ pc[p] = "done"
        /\ loc[p].ev.amount = <<0>>
        /\ resp[p].tag = "REJECTED"
        /\ resp[p].code = 200
        /\ Len(payments) = 1
        /\ payments[1].status = "PENDING"
        /\ transactions = << >>

\* the payment records whose external id is an identifier of ev
PaymentsOf(ev) ==
    {i \in 1..Len(payments) :
        payments[i].externalPaymentId \in {ev.checkoutId, ev.paymentId} \ {""}}

\* C21: no step of a payment.failed delivery changes a balance, the
\* transaction log or the idempotency records; the delivery is
\* acknowledged; and the step that ends it leaves a payment record that
\* has an identifier of the notification as its external id, if there is
\* one, FAILED with webhookReceived, and changes no payment record if
\* there is none.
PaymentFailedHandling ==
    [][\A p \in Procs :
         StepOf(p) /\ loc'[p].kind = "hook"
                   /\ loc'[p].ev.eventType = "payment.failed" =>
            /\ users' = users
            /\ transactions' = transactions
            /\ processedIdempotencyKeys' = processedIdempotencyKeys
            /\ idempotency' = idempotency
            /\ pc'[p] = "done" =>
                  /\ resp'[p].code = 200
                  /\ IF PaymentsOf(loc'[p].ev) = {}
                     THEN payments' = payments
                     ELSE \E i \in PaymentsOf(loc'[p].ev) :
                             /\ payments'[i].status = "FAILED"
                             /\ payments'[i].webhookReceived]_vars

\* slot p holds an ended delivery of ev and no other request has been made
DeliveredAlone(p, ev) ==
    /\ loc[p].kind = "hook"
    /\ loc[p].ev = ev
    /\ pc[p] = "done"
    /\ \A q \in Procs \ {p} : pc[q] = "idle"

\* C22: after the first delivery of the success notification (chk_1,
\* pay_1, 2000) next to the PENDING payment chk_1 of 2000, the balance of
\* the payment's account has grown by 500, the log holds exactly one
\* transaction, a CREDIT_PURCHASE of +500 for that account, the payment is
\* COMPLETED with webhookReceived, and the delivery was answered PROCESSED.
HappyPathPurchase ==
    \A p \in Procs :
        DeliveredAlone(p, PaidEvent) =>
           /\ users["u1"] = INITIAL_BALANCE + 500
           /\ Len(transactions) = 1
           /\ transactions[1].type = "CREDIT_PURCHASE"
           /\ transactions[1].amount = 500
           /\ transactions[1].userId = payments[1].userId
           /\ payments[1].status = "COMPLETED"
           /\ payments[1].webhookReceived
           /\ resp[p].code = 200
           /\ resp[p].tag = "PROCESSED"

\* the accounts of the payment records that ev names
AttemptAccounts(ev) == {payments[j].userId : j \in PaymentsOf(ev)}

\* C23: the credit of a success notification that names a recorded payment
\* goes to the account of that payment, whatever user the metadata carry;
\* and a delivery that has neither a recorded payment nor a metadata user
\* ends logged ERROR and acknowledged.
CreditGoesToAttemptAccount ==
    \A p \in Deliveries :
        pc[p] = "done" =>
           /\ resp[p].body = "credited" /\ PaymentsOf(loc[p].ev) # {} =>
                 \A i \in TxWithKey(HookKey(loc[p].ev)) :
                    transactions[i].userId \in AttemptAccounts(loc[p].ev)
           /\ ( /\ PaymentsOf(loc[p].ev) = {}
                /\ loc[p].ev.userId = ""
                /\ DeclaredAmount(loc[p].ev) # << >> ) =>
                 \/ resp[p].tag = "ERROR" /\ resp[p].code = 200
                 \/ resp[p].tag = "DUPLICATE"

\* slot p holds a success delivery whose lookups of the payment record
\* have returned
LookedUp(p) ==
    /\ loc[p].kind = "hook"
    /\ loc[p].ev.eventType \in {"payment.succeeded", "checkout.completed"}
    /\ pc[p] = "found"
    /\ ~(loc[p].rec = 0 /\ Len(loc[p].ids) > 1)

\* C24: once the lookups of a success delivery have returned, the amount
\* it goes on with is the declared one if the notification declares one,
\* else the amount of the payment record found; without either the
\* delivery ends REJECTED and acknowledged in that step, which changes no
\* store; and the transaction a success delivery records is of the
\* credits of that amount.
EffectiveAmount ==
    [][\A p \in Procs :
         StepOf(p) /\ loc[p].kind = "hook" =>
            LET ev == loc[p].ev
                rec == loc[p].rec
                cents == IF ev.amount # << >> THEN ev.amount[1]
                         ELSE payments[rec].amount
            IN /\ LookedUp(p) =>
                    IF ev.amount # << >> \/ rec # 0
                    THEN /\ pc'[p] # "done"
                         /\ loc'[p].cents = cents
                    ELSE /\ pc'[p] = "done"
                         /\ resp'[p].tag = "REJECTED"
                         /\ resp'[p].code = 200
                         /\ users' = users
                         /\ transactions' = transactions
                         /\ payments' = payments
                         /\ processedIdempotencyKeys' = processedIdempotencyKeys
                         /\ idempotency' = idempotency
               /\ Len(transactions') > Len(transactions) =>
                    transactions'[Len(transactions')].amount
                       = getCreditsForAmount(cents)]_vars

\* the completion that declares no amount was credited with the credits
\* of the recorded amount
RecordedAmountCredited ==
    \E p \in Deliveries :
        /\ DeliveredAlone(p, Event("checkout.completed", "chk_1", "", << >>, ""))
        /\ resp[p].body = "credited"
        /\ Len(transactions) = 1
        /\ transactions[1].amount = 500
        /\ users["u1"] = INITIAL_BALANCE + 500

\* the executeSpin calls that have returned a result
Results == {p \in Procs : loc[p].kind = "engine" /\ pc[p] = "done" /\ resp[p].code = 200}

\* the multiplier of three equal symbols
FullValue(symbol) ==
    CASE symbol = "SEVEN" -> 50
      [] symbol = "DIAMOND" -> 25
      [] symbol = "STAR" -> 15
      [] symbol = "GRAPE" -> 10
      [] symbol = "ORANGE" -> 8
      [] symbol = "LEMON" -> 5
      [] symbol = "CHERRY" -> 3

\* the multiplier of two equal symbols on the first two reels (0: none)
PartialValue(symbol) ==
    CASE symbol = "SEVEN" -> 5
      [] symbol = "DIAMOND" -> 3
      [] symbol = "STAR" -> 2
      [] OTHER -> 0

\* the multiplier the payout rules give to a reel triple
ExpectedMultiplier(reels) ==
    IF reels[1] = reels[2] /\ reels[2] = reels[3] THEN FullValue(reels[1])
    ELSE IF reels[1] = reels[2] THEN PartialValue(reels[1])
    ELSE 0

\* C25: there are 343 reel triples over the 7 symbols; for each of them
\* the multiplier is the three-of-a-kind value when the three reels are
\* equal, else the partial value when the first two reels are equal and
\* the symbol has one, else 0; and every result of executeSpin has that
\* multiplier for its reels and a winAmount of multiplier * betAmount,
\* which is a natural number.
PayoutResolution ==
    /\ Cardinality(Reels) = 343
    /\ \A reels \in Reels : calculateMultiplier(reels) = ExpectedMultiplier(reels)
    /\ \A p \in Results :
          /\ loc[p].reels \in Reels
          /\ loc[p].mult = ExpectedMultiplier(loc[p].reels)
          /\ loc[p].amount = loc[p].mult * loc[p].bet
          /\ loc[p].amount \in Nat

\* two stars and a cherry on a bet of 25 returned a winAmount of 50
PartialWin ==
    \E p \in Results :
        /\ loc[p].reels = <<"STAR", "STAR", "CHERRY">>
        /\ loc[p].bet = 25
        /\ loc[p].mult = 2
        /\ loc[p].amount = 50

\* the getRandomSymbol calls that have returned
Draws == {p \in Procs : loc[p].kind = "draw" /\ pc[p] = "done"}

\* the weights 30, 25, 20, 15, 7, 2, 1 summed up in the declaration order
\* of the symbols
CumulativeWeights == <<30, 55, 75, 90, 97, 99, 100>>

\* the first symbol, in declaration order, whose cumulative weight exceeds r
FirstExceeding(r) ==
    SYMBOLS[CHOOSE i \in 1..7 :
               /\ CumulativeWeights[i] > r
               /\ \A j \in 1..(i - 1) : CumulativeWeights[j] <= r]

\* the number of draw values for which getRandomSymbol returns symbol
DrawValues(symbol) == Cardinality({r \in Rolls : getRandomSymbol(r) = symbol})

\* C26: the total weight is 100; for every draw value from 0 to 99
\* getRandomSymbol returns the first symbol, in declaration order, whose
\* cumulative weight exceeds the value, and not by the return after the
\* loop; the symbols are returned for 30, 25, 20, 15, 7, 2 and 1 of the
\* 100 values; and every call that has returned returned that symbol for
\* its draw.
WeightedDraw ==
    /\ TOTAL_WEIGHT = 100
    /\ Rolls = 0..99
    /\ \A r \in Rolls :
          /\ getRandomSymbol(r) = FirstExceeding(r)
          /\ ~WalkWeights(r, 1, 0).fallback
    /\ <<DrawValues("CHERRY"), DrawValues("LEMON"), DrawValues("ORANGE"),
          DrawValues("GRAPE"), DrawValues("STAR"), DrawValues("DIAMOND"),
          DrawValues("SEVEN")>> = <<30, 25, 20, 15, 7, 2, 1>>
    /\ \A p \in Draws :
          /\ loc[p].reels = <<FirstExceeding(loc[p].roll)>>
          /\ ~loc[p].fallback

\* the draws 99 and 29 returned the rarest and the most common symbol
ExtremeDraws ==
    \E p, q \in Draws :
        /\ loc[p].roll = 99 /\ loc[p].reels = <<"SEVEN">>
        /\ loc[q].roll = 29 /\ loc[q].reels = <<"CHERRY">>

\* the symbols of least weight
RarestSymbols ==
    {SYMBOL_WEIGHTS[i].symbol : i \in
        {i \in 1..Len(SYMBOL_WEIGHTS) :
            \A j \in 1..Len(SYMBOL_WEIGHTS) :
                SYMBOL_WEIGHTS[i].weight <= SYMBOL_WEIGHTS[j].weight}}

\* C27: one symbol is the rarest, with weight 1; the isJackpot flag of a
\* result of executeSpin is set if and only if its three reels show that
\* symbol; and a result with the flag set has the multiplier 50.
JackpotFlag ==
    /\ Cardinality(RarestSymbols) = 1
    /\ \A i \in 1..Len(SYMBOL_WEIGHTS) :
          SYMBOL_WEIGHTS[i].symbol \in RarestSymbols => SYMBOL_WEIGHTS[i].weight = 1
    /\ \A p \in Results :
          /\ loc[p].isJackpot <=> \A i \in 1..3 : loc[p].reels[i] \in RarestSymbols
          /\ loc[p].isJackpot => loc[p].mult = 50

\* a jackpot on a bet of 100
JackpotResult ==
    \E p \in Results :
        /\ loc[p].isJackpot
        /\ loc[p].reels = <<"SEVEN", "SEVEN", "SEVEN">>
        /\ loc[p].bet = 100
        /\ loc[p].amount = 5000

\* the generateSpinId calls that have returned
SpinIds == {p \in Procs : loc[p].kind = "spinId" /\ pc[p] = "done"}

\* C28: any two calls of generateSpinId, also two calls within the same
\* millisecond, return different spin ids.
SpinIdsDistinct ==
    \A p, q \in SpinIds : p # q => loc[p].spinId # loc[q].spinId

\* the configured weight of a symbol
WeightOf(symbol) ==
    LET i == CHOOSE i \in 1..Len(SYMBOL_WEIGHTS) : SYMBOL_WEIGHTS[i].symbol = symbol
    IN SYMBOL_WEIGHTS[i].weight

\* (product of the three symbol weights) * multiplier of a triple
PayoutMass(reels) ==
    WeightOf(reels[1]) * WeightOf(reels[2]) * WeightOf(reels[3]) * calculateMultiplier(reels)

\* the sum of PayoutMass over the triples that extend the reels chosen so far
\* with the symbols from the i-th on
RECURSIVE PayoutMassFrom(_, _)
PayoutMassFrom(chosen, i) ==
    IF i > Len(SYMBOLS) THEN 0
    ELSE LET reels == Append(chosen, SYMBOLS[i])
         IN (IF Len(reels) = 3 THEN PayoutMass(reels) ELSE PayoutMassFrom(reels, 1))
            + PayoutMassFrom(chosen, i + 1)

\* the sum over all ordered reel triples
TotalPayoutMass == PayoutMassFrom(<< >>, 1)

\* C29: the sum over all ordered reel triples of (product of the three symbol
\* weights) * multiplier is strictly less than totalWeight^3 = 1,000,000, and
\* every spin pays its bet times the multiplier entering that sum, so the
\* expected payout per unit bet is below 1.
HouseEdge ==
    /\ \A symbol \in DrawnSymbols :
          Cardinality({roll \in Rolls : getRandomSymbol(roll) = symbol}) = WeightOf(symbol)
    /\ TOTAL_WEIGHT * TOTAL_WEIGHT * TOTAL_WEIGHT = 1000000
    /\ TotalPayoutMass < TOTAL_WEIGHT * TOTAL_WEIGHT * TOTAL_WEIGHT
    /\ \A p \in Results :
          loc[p].amount = loc[p].bet * calculateMultiplier(loc[p].reels)

\* a spin that pays more than its bet although the mean payout is below it
SpinPaysAboveBet ==
    \E p \in Results :
        /\ loc[p].reels = <<"CHERRY", "CHERRY", "CHERRY">>
        /\ loc[p].bet = 10
        /\ loc[p].amount = 30
        /\ PayoutMass(loc[p].reels) = 81000

\* the deliveries the webhook has accepted for crediting: past the duplicate
\* check, the amount validation and the user resolution
AcceptedForCredit == {p \in Procs : pc[p] = "hook_credit"}

\* C30: getCreditsForAmount returns the package credits (500, 1000, 2500,
\* 5000) for the package prices (2000, 3500, 7500, 12500) and
\* floor(amount / 4) for every other amount, and every amount the webhook has
\* accepted for crediting converts to a positive number of credits.
CreditConversion ==
    /\ getCreditsForAmount(2000) = 500 /\ getCreditsForAmount(3500) = 1000
    /\ getCreditsForAmount(7500) = 2500 /\ getCreditsForAmount(12500) = 5000
    /\ \A p \in AcceptedForCredit :
          /\ loc[p].cents \notin {2000, 3500, 7500, 12500}
                => loc[p].amount = loc[p].cents \div 4
          /\ loc[p].amount > 0

\* the slot that takes the step
Actor(p) == pc'[p] # pc[p]

\* a step that records a transaction appends one record and leaves the
\* recorded ones as they are; the new record is signed by the primitive that
\* wrote it, and its balanceBefore is the balance the account had when the
\* balance was changed (DynamoDB: the ALL_OLD value of the update)
RecordsSnapshot ==
    transactions' # transactions =>
        /\ Len(transactions') = Len(transactions) + 1
        /\ SubSeq(transactions', 1, Len(transactions)) = transactions
        /\ \E p \in Procs :
              /\ Actor(p)
              /\ LET t == transactions'[Len(transactions')]
                     debit == t.type = "SPIN_BET" \/ loc'[p].kind = "debit"
                 IN /\ debit => t.amount < 0
                    /\ ~debit => t.amount > 0
                    /\ IF dynamo
                       THEN /\ t.balanceBefore = loc[p].oldBal
                            /\ UNCHANGED users
                       ELSE /\ t.balanceBefore = users[t.userId]
                            /\ users'[t.userId] = t.balanceAfter

\* DynamoDB: the update that changes a balance hands the old balance to the
\* slot that issued it
UpdateReturnsOld ==
    (dynamo /\ users' # users /\ DOMAIN users' = DOMAIN users) =>
        \E p \in Procs :
            /\ Actor(p)
            /\ loc'[p].oldBal = users[loc[p].userId]
            /\ users' = [users EXCEPT ![loc[p].userId] = users'[loc[p].userId]]
            /\ pc'[p] \in {"deb_put", "cred_put"}

WellFormedTransactions ==
    \A i \in 1..Len(transactions) :
        /\ transactions[i].status = "COMPLETED"
        /\ transactions[i].amount \in Int \ {0}
        /\ transactions[i].balanceAfter
              = transactions[i].balanceBefore + transactions[i].amount

\* C31: every transaction ever recorded has status COMPLETED, a non-zero
\* integer amount (negative for debits, positive for credits) and
\* balanceAfter = balanceBefore + amount, where balanceBefore is the account
\* balance immediately before that mutation.
AuditSnapshots ==
    /\ []WellFormedTransactions
    /\ [][RecordsSnapshot /\ UpdateReturnsOld]_vars

\* a debit and a credit of one account, both recorded on DynamoDB
DebitAndCreditRecorded ==
    /\ dynamo
    /\ \E i, j \in 1..Len(transactions) :
          /\ transactions[i].userId = transactions[j].userId
          /\ transactions[i].amount < 0
          /\ transactions[j].amount > 0
          /\ transactions[j].balanceBefore = transactions[i].balanceAfter
          /\ transactions[i].balanceBefore = INITIAL_BALANCE

\* C32: getTransactionHistory(accountId, limit) and getAllTransactions(limit)
\* leave every balance and the stored transaction log unchanged, including
\* the stored order of its records.
QueriesReadOnly ==
    [][\A p \in Procs :
          (Actor(p) /\ loc'[p].kind \in {"all", "history"})
              => UNCHANGED <<users, transactions>>]_vars

\* the account u is created by the step
Created(u) == u \notin DOMAIN users /\ u \in DOMAIN users'

\* the balance of the existing account u is changed by the step
BalanceChanged(u) == u \in DOMAIN users /\ u \in DOMAIN users' /\ users'[u] # users[u]

\* the step commits a debit or a credit of l.amount to u: in memory together
\* with its transaction, on DynamoDB by the update of the two primitives
CommitsMutation(u) ==
    \E p \in Procs :
        /\ Actor(p)
        /\ loc'[p].userId = u
        /\ IF dynamo
           THEN \/ pc[p] = "deb_update" /\ pc'[p] = "deb_put"
                     /\ users'[u] = users[u] - loc[p].amount
                \/ pc[p] = "cred_update" /\ pc'[p] = "cred_put"
                     /\ users'[u] = users[u] + loc[p].amount
           ELSE /\ Len(transactions') = Len(transactions) + 1
                /\ transactions'[Len(transactions')].userId = u
                /\ users'[u] = users[u] + transactions'[Len(transactions')].amount

\* C33: the first reference to an unknown account id creates it with balance
\* 1000 and no transaction; a later or concurrent getOrCreateUser for the
\* same id never resets or changes the existing balance, so concurrent first
\* references yield a single account and no committed debit or credit is lost.
LazyAccountCreation ==
    [][\A u \in UserIds :
          /\ u \in DOMAIN users => u \in DOMAIN users'
          /\ Created(u) =>
                /\ users'[u] = INITIAL_BALANCE
                /\ UNCHANGED transactions
                /\ \A i \in 1..Len(transactions) : transactions[i].userId # u
          /\ BalanceChanged(u) => CommitsMutation(u)]_vars

\* a first reference that lost the race for the creation reads the account
\* after a debit of the winner was committed
LostCreationRace ==
    \E p \in Procs :
        /\ pc[p] = "guc_retry"
        /\ loc[p].userId \in DOMAIN users
        /\ users[loc[p].userId] < INITIAL_BALANCE

\* the recorded transactions of account u, whatever their stored order (the
\* stored order is the subject of QueriesReadOnly)
RecordsOf(log, u) == {log[i] : i \in {j \in 1..Len(log) : log[j].userId = u}}

\* the step is taken by a debitBalance or creditBalance call for account u
InsideMutator(u) ==
    \E p \in Procs :
        /\ Actor(p)
        /\ loc'[p].kind \in {"debit", "credit"}
        /\ loc'[p].userId = u

NotificationsOf(ext) ==
    {ev \in PurchaseEvents \cup HookEvents :
        HookCheckoutId(ev) = ext \/ ev.paymentId = ext}

\* the CREDIT_PURCHASE transactions made for notifications of ext
PurchaseCreditsOf(ext) ==
    {i \in 1..Len(transactions) :
        /\ transactions[i].type = "CREDIT_PURCHASE"
        /\ transactions[i].idempotencyKey \in {HookKey(ev) : ev \in NotificationsOf(ext)}}

\* C35: for any payment attempt, over any sequence of success notifications
\* that resolve to it, also ones that carry different identifier combinations
\* and therefore different idempotency keys, at most one CREDIT_PURCHASE
\* transaction is ever created.
OneCreditPerAttempt ==
    \A a \in 1..Len(payments) :
        Cardinality(PurchaseCreditsOf(payments[a].externalPaymentId)) <= 1

\* C36: in every state in which no webhook handler is in progress, a payment
\* attempt has status COMPLETED if and only if a CREDIT_PURCHASE transaction
\* referencing its external id exists; an attempt with status FAILED or
\* PENDING has never been credited.
StatusLedgerConsistency ==
    (\A p \in Deliveries : pc[p] = "done") =>
        \A a \in 1..Len(payments) :
            payments[a].status = "COMPLETED"
                <=> PurchaseCreditsOf(payments[a].externalPaymentId) # {}

\* the transactions T can be put in an order in which they lead from the
\* balance first to the balance last, each balanceBefore being the
\* balanceAfter of the one before
RECURSIVE FormsChain(_, _, _)
FormsChain(T, first, last) ==
    IF T = {} THEN first = last
    ELSE \E t \in T :
            /\ t.balanceBefore = first
            /\ FormsChain(T \ {t}, t.balanceAfter, last)

\* C37: for every account, its transactions taken in the order they were
\* committed form a chain: the first balanceBefore is 1000, each later
\* balanceBefore is the previous balanceAfter, and the last balanceAfter is
\* the account's current balance, under any interleaving of concurrent
\* debits and credits.
AuditChain ==
    \A u \in DOMAIN users :
        RecordsOf(transactions, u) # {}
            => FormsChain(RecordsOf(transactions, u), INITIAL_BALANCE, users[u])

\* the stores and the result of the last call, as far as a caller can tell
\* them apart: balances, the accounts and amounts of the log, the keys
\* isPaymentProcessed answers true for
NoOutcome == [users |-> << >>, log |-> << >>, keys |-> {}, result |-> ""]

\* what the in-memory branches make of the call c on the stores of o
InMemoryOutcome(o, c) ==
    LET u == c.userId
        fail(msg) == [o EXCEPT !.result = msg]
        apply(amount) ==
            [o EXCEPT !.users = [o.users EXCEPT ![u] = o.users[u] + amount],
                      !.log = Append(o.log, [userId |-> u, amount |-> amount,
                                             key |-> NoKey]),
                      !.result = "ok"]
    IN CASE c.kind = "user" ->
              [o EXCEPT !.users = IF u \in DOMAIN o.users THEN o.users
                                   ELSE (u :> INITIAL_BALANCE) @@ o.users,
                        !.result = "ok"]
         [] c.kind = "processed" ->
              [o EXCEPT !.result = IF c.key \in o.keys THEN "true" ELSE "false"]
         [] c.kind = "debit" ->
              IF c.amount <= 0 THEN fail("Debit amount must be positive")
              ELSE IF u \notin DOMAIN o.users THEN fail("User not found")
              ELSE IF o.users[u] < c.amount THEN fail("Insufficient balance")
              ELSE apply(-c.amount)
         [] OTHER ->
              IF c.amount <= 0 THEN fail("Credit amount must be positive")
              ELSE IF c.key # NoKey /\ c.key \in o.keys
              THEN IF \E i \in 1..Len(o.log) : o.log[i].key = c.key
                   THEN fail("ok")
                   ELSE fail("Idempotency key found but transaction missing")
              ELSE LET k == [o EXCEPT !.keys = IF c.key # NoKey THEN @ \cup {c.key} ELSE @]
                   IN IF u \notin DOMAIN o.users
                      THEN [k EXCEPT !.result = "User not found"]
                      ELSE [k EXCEPT !.users = [k.users EXCEPT ![u] = k.users[u] + c.amount],
                                     !.log = Append(k.log, [userId |-> u, amount |-> c.amount,
                                                            key |-> c.key]),
                                     !.result = "ok"]

\* the in-memory outcome of the calls of the slots 1..n, made in this order
RECURSIVE InMemoryOutcomes(_)
InMemoryOutcomes(n) ==
    IF n = 0 THEN NoOutcome ELSE InMemoryOutcome(InMemoryOutcomes(n - 1), loc[n])

\* the calls that have returned
ReturnedCalls == {p \in Procs : pc[p] = "done"}

\* C38: for every sequence of getOrCreateUser, debitBalance, creditBalance
\* (with and without idempotencyKey) and isPaymentProcessed calls, the
\* in-memory backend and the DynamoDB backend return the same results and
\* errors and reach corresponding balances, transaction logs and
\* processed-key sets: on either backend every call returns what the
\* in-memory branches return for the sequence, and the stores correspond to
\* the in-memory ones.
BackendEquivalence ==
    Awaited =>
        LET n == Cardinality(ReturnedCalls)
            o == InMemoryOutcomes(n)
        IN /\ \A p \in 1..n : resp[p].body = InMemoryOutcomes(p).result
           /\ users = o.users
           /\ Len(transactions) = Len(o.log)
           /\ \A i \in 1..Len(o.log) :
                 /\ transactions[i].userId = o.log[i].userId
                 /\ transactions[i].amount = o.log[i].amount
           /\ {k \in CreditKeys \ {NoKey} : IsProcessed(k)} = o.keys

\* the notifications whose key has been derived
Keyed == {p \in Procs : loc[p].kind = "key" /\ resp[p].body = "key"}

\* C39: the key computed by the webhook handler is a function of the
\* event's (checkoutId, paymentId), and two notifications with different
\* (checkoutId, paymentId) pairs, also with ids that contain '_' or with one
\* id missing and substituted by the other, never produce the same key.
KeyInjective ==
    \A p, q \in Keyed :
        LET same == /\ loc[p].ev.checkoutId = loc[q].ev.checkoutId
                    /\ loc[p].ev.paymentId = loc[q].ev.paymentId
        IN /\ same => loc[p].key = loc[q].key
           /\ ~same => loc[p].key # loc[q].key

\* C40: calculateTheoreticalRTP returns 100 times the expected payout per
\* unit bet of executeSpin's outcome distribution, the sum over every paying
\* combination of its probability under the symbol weights times its
\* multiplier, every three-of-a-kind entry of the payout table contributing
\* (weight/totalWeight)^3 * multiplier for its own symbol's weight.
TheoreticalRTP ==
    \A p \in Procs :
        (loc[p].kind = "rtp" /\ pc[p] = "done") =>
            /\ loc[p].amount = TotalPayoutMass
            /\ \A symbol \in {SYMBOLS[i] : i \in 1..Len(SYMBOLS)} :
                  WeightOfKey(FirstSymbol(ComboOf(symbol))) = WeightOf(symbol)
====
